---- MODULE Spec2Model ----
(***************************************************************************)
(* A model of the webclaw dashboard core: the server-push channel          *)
(* (EventsProvider), the response introspector's request de-duplication,   *)
(* the confirmation card and dynamic form submission paths, and the form   *)
(* spec resolution of the skill page with the hooks that feed it.          *)
(*                                                                         *)
(* Each subsystem has its own specification (SpecEvents, SpecIntrospect,   *)
(* SpecCard, SpecForm, SpecPage) over its own variables; a specification   *)
(* leaves the variables of the other subsystems at their initial values.   *)
(***************************************************************************)
EXTENDS Integers, Sequences, FiniteSets, TLC

NULL == "null"

Min(a, b) == IF a <= b THEN a ELSE b

RECURSIVE Pow2(_)
Pow2(n) == IF n = 0 THEN 1 ELSE 2 * Pow2(n - 1)

\* Range of a sequence.
Range(s) == {s[i] : i \in 1..Len(s)}

VARIABLES
  \* ---- EventsProvider (src/web/src/lib/ui-config.ts 104-178) ----
  status,        \* React state: "connected" | "connecting" | "disconnected"
  esState,       \* EventSource objects: id -> "none" | "connecting" | "open"
  esRef,         \* esRef.current: an id, or 0 for null
  retryRef,      \* retryRef.current
  mountedRef,    \* mountedRef.current
  timers,        \* number of pending setTimeout callbacks scheduled by onerror
  accessToken,   \* auth module's token: TRUE when non-null
  effectActive,  \* the mount effect has run and its cleanup has not
  mounts,        \* number of times the mount effect has run
  fails,         \* history: handled transport failures since the last handled open
  lastDelay,     \* history: delay of the timer scheduled by the latest failure (0: none)
  opened,        \* history: some connection has been opened and handled
  recovering,    \* history: a failure was handled while logged in; no attempt, logout or unmount since
  \* ---- introspectEntity (src/web/src/lib/response-introspection.ts) ----
  inCache,         \* cache: key -> [schema, fresh] (fresh: now - cachedAt < CACHE_TTL)
  pendingRequests, \* pendingRequests: key -> the call whose _doIntrospect promise is stored, or 0
  reqState,        \* per call: its _doIntrospect request, "none" | "inflight" | "settled"
  reqValue,        \* per call: what its _doIntrospect promise resolved to
  callKey,         \* per call: the cache key it was made for (NULL: not made yet)
  callState,       \* per call: "idle" | "awaiting" | "done"
  callPromise,     \* per call: the call whose promise it awaits (itself when it issued the request)
  callResult,      \* per call: the value introspectEntity resolved to
  callDuring,      \* history: the request in flight for the call's key when it was made (0: none)
  \* ---- ConfirmationCard (src/web/src/components/confirmation-card.tsx) ----
  composition,       \* prop: CompositionResult [action, resolved_fields, unresolved_fields]
  cardRequired,      \* the required parameters of composition.action (backend manifest)
  editingField,      \* React state: field being edited, or NULL
  resolvedOverrides, \* React state: field -> override, UNDEF when never edited
  unresolvedValues,  \* React state: field -> typed value, UNDEF when never typed
  cardSubmitting,    \* React state: submitting
  expanded,          \* React state: low-confidence block expanded
  \* ---- DynamicForm (src/web/src/components/dynamic-form.tsx) ----
  formSpec,          \* prop: spec (FormSpec)
  fields,            \* React state: key -> string, scalar fields
  repeatables,       \* React state: section key -> rows (each row: key -> string)
  formSubmitting,    \* React state: submitting
  toast,             \* the last toast shown by the form
  \* ---- skill page (src/web/src/proxy.ts) and the schema hooks ----
  world,             \* what the backend holds for the skills (fixed)
  uiRemoved,         \* skills whose UI.yaml has been removed from the backend
  pageMounted,       \* a SkillPageContent is rendered
  skill,             \* its skill
  hookValue,         \* hook -> React state: config / schema
  hookLoading,       \* hook -> React state: loading
  hookCache,         \* hook -> module cache: skill -> entry
  inflight,          \* hook -> requests sent: <<skill, callback's component is rendered>>
  activeForm,        \* React state: action whose form is open, NoName for null
  navs,              \* number of renders for a new skill after the first
  formResolved,      \* history: the spec resolved for the open form, and what the hooks held then
  \* ---- EventsProvider message dispatch (src/web/src/lib/ui-config.ts 128-171) ----
  handlersRef,       \* handlersRef.current: the handlers in insertion order
  lastMsg,           \* the frame of the latest onmessage call, NoFrame before the first
  invoked,           \* the handlers that call invoked, in order
  \* ---- response introspection and fetchers, one call (response-introspection.ts) ----
  request,           \* the call made and what the backend answers it
  promise,           \* how the call's promise settled, Unsettled before
  \* ---- introspection cache invalidation (response-introspection.ts 223-231) ----
  staleReqs,         \* history: the requests that were in flight when their key was invalidated
  \* ---- ChatProvider (src/web/src/lib/chat.tsx 164-289) ----
  isStreaming,       \* React state: isStreaming
  renderedStreaming, \* the isStreaming captured by the sendMessage of the latest render
  pendingRef,        \* pendingRef.current, NoMsg for null
  streams,           \* the messages whose POST /stream has not settled
  queuedSends,       \* the zero-delay timers of finally: the messages they will send
  submitted,         \* history: the non-blank messages passed to sendMessage by the user
  posted             \* history: the messages POSTed to the backend, in order

evVars == <<status, esState, esRef, retryRef, mountedRef, timers, accessToken,
            effectActive, mounts, fails, lastDelay, opened, recovering>>

inVars == <<inCache, pendingRequests, reqState, reqValue, callKey, callState,
            callPromise, callResult, callDuring>>

cardVars == <<composition, cardRequired, editingField, resolvedOverrides, unresolvedValues,
              cardSubmitting, expanded>>

formVars == <<formSpec, fields, repeatables, formSubmitting, toast>>

pageVars == <<world, uiRemoved, pageMounted, skill, hookValue, hookLoading, hookCache, inflight,
              activeForm, navs, formResolved>>

msgVars == <<handlersRef, lastMsg, invoked>>

fnVars == <<request, promise>>

hsVars == <<staleReqs>>

chatVars == <<isStreaming, renderedStreaming, pendingRef, streams, queuedSends, submitted, posted>>

vars == <<evVars, inVars, cardVars, formVars, pageVars, msgVars, fnVars, hsVars, chatVars>>

\* pendingRef.current = null.
NoMsg == 0

\* No ChatProvider is rendered.
ChatIdle ==
  /\ isStreaming = FALSE
  /\ renderedStreaming = FALSE
  /\ pendingRef = NoMsg
  /\ streams = {}
  /\ queuedSends = {}
  /\ submitted = <<>>
  /\ posted = <<>>

\* No invalidation is followed.
HsIdle == staleReqs = {}

(***************************************************************************)
(* EventsProvider                                                          *)
(***************************************************************************)

MAX_BACKOFF == 30000
BASE_BACKOFF == 1000

\* Bounds of the model.
MaxMounts == 3      \* runs of the mount effect
MaxRetry == 17      \* cap on retryRef (2^15 > MAX_BACKOFF / BASE_BACKOFF)

EsIds == 1..MaxMounts

OpenSources == {e \in EsIds : esState[e] # "none"}

\* new EventSource(...): the least unused id.
NewEs == CHOOSE e \in EsIds : esState[e] = "none" /\ \A d \in EsIds : esState[d] = "none" => e <= d

InitEvents ==
  /\ status = "disconnected"
  /\ esState = [e \in EsIds |-> "none"]
  /\ esRef = 0
  /\ retryRef = 0
  /\ mountedRef = TRUE
  /\ timers = 0
  /\ accessToken = FALSE
  /\ effectActive = FALSE
  /\ mounts = 0
  /\ fails = 0
  /\ lastDelay = 0
  /\ opened = FALSE
  /\ recovering = FALSE

\* connect(): the part after mountedRef has been set by the caller.
connect ==
  IF ~accessToken \/ ~mountedRef'
  THEN /\ status' = "disconnected"
       /\ UNCHANGED <<esState, esRef>>
       /\ UNCHANGED recovering
  ELSE /\ status' = "connecting"
       /\ \E e \in {NewEs} :
            /\ esState' = [esState EXCEPT ![e] = "connecting"]
            /\ esRef' = e
       /\ recovering' = FALSE

\* Mutant: the delay without the MAX_BACKOFF cap.
BackoffDelay_noCap(retry) == BASE_BACKOFF * Pow2(retry)

\* Delay computed by onerror from the retry counter.
BackoffDelay(retry) == Min(BASE_BACKOFF * Pow2(retry), MAX_BACKOFF)

\* useEffect body: mountedRef.current = true; connect()
Mount ==
  /\ ~effectActive
  /\ mounts < MaxMounts
  /\ effectActive' = TRUE
  /\ mounts' = mounts + 1
  /\ mountedRef' = TRUE
  /\ connect
  /\ UNCHANGED <<retryRef, timers, accessToken, fails, lastDelay, opened>>

\* useEffect cleanup: mountedRef.current = false; esRef.current?.close(); esRef.current = null
Unmount ==
  /\ effectActive
  /\ effectActive' = FALSE
  /\ mountedRef' = FALSE
  /\ esState' = IF esRef # 0 THEN [esState EXCEPT ![esRef] = "none"] ELSE esState
  /\ esRef' = 0
  /\ recovering' = FALSE
  /\ UNCHANGED <<status, retryRef, timers, accessToken, mounts, fails, lastDelay, opened>>

\* es.onopen
OnOpen(e) ==
  /\ esState[e] = "connecting"
  /\ esState' = [esState EXCEPT ![e] = "open"]
  /\ IF ~mountedRef
     THEN UNCHANGED <<status, retryRef, fails, lastDelay, opened>>
     ELSE /\ status' = "connected"
          /\ retryRef' = 0
          /\ fails' = 0
          /\ lastDelay' = 0
          /\ opened' = TRUE
  /\ UNCHANGED <<esRef, mountedRef, timers, accessToken, effectActive, mounts, recovering>>

\* es.onerror
OnError(e) ==
  /\ esState[e] # "none"
  /\ retryRef < MaxRetry
  /\ esState' = [esState EXCEPT ![e] = "none"]          \* es.close()
  /\ esRef' = 0                                         \* esRef.current = null
  /\ IF ~mountedRef
     THEN UNCHANGED <<status, retryRef, timers, fails, lastDelay, recovering>>
     ELSE /\ status' = "disconnected"
          /\ lastDelay' = BackoffDelay(retryRef)
          /\ retryRef' = retryRef + 1
          /\ timers' = timers + 1
          /\ fails' = fails + 1
          /\ recovering' = accessToken
  /\ UNCHANGED <<mountedRef, accessToken, effectActive, mounts, opened>>

\* Mutant: the timer callback never reconnects.
TimerFire_noReconnect ==
  /\ timers > 0
  /\ timers' = timers - 1
  /\ UNCHANGED <<status, esState, esRef, mountedRef, recovering>>
  /\ UNCHANGED <<retryRef, accessToken, effectActive, mounts, fails, lastDelay, opened>>

\* The setTimeout callback of onerror: if (mountedRef.current) connect()
TimerFire ==
  /\ timers > 0
  /\ timers' = timers - 1
  /\ IF mountedRef
     THEN /\ UNCHANGED mountedRef
          /\ connect
     ELSE UNCHANGED <<status, esState, esRef, mountedRef, recovering>>
  /\ UNCHANGED <<retryRef, accessToken, effectActive, mounts, fails, lastDelay, opened>>

\* auth: login() or a successful refresh stores a token.
SetToken ==
  /\ ~accessToken
  /\ accessToken' = TRUE
  /\ UNCHANGED <<status, esState, esRef, retryRef, mountedRef, timers, effectActive,
                 mounts, fails, lastDelay, opened, recovering>>

\* auth: logout() clears the token (a user action).
Logout ==
  /\ accessToken
  /\ accessToken' = FALSE
  /\ recovering' = FALSE
  /\ UNCHANGED <<status, esState, esRef, retryRef, mountedRef, timers, effectActive,
                 mounts, fails, lastDelay, opened>>

(***************************************************************************)
(* EventsProvider: subscribers and message dispatch                        *)
(***************************************************************************)

MaxChannelRetry == 1   \* cap on retryRef where frames are followed

\* Subscribers of the channel; Thrower's handler throws when invoked.
Handlers == {"h1", "h2"}
Thrower == "h2"

\* msg.data of a frame: JSON of an event object with that type, JSON that is
\* no object ("null"), or text that is no JSON ("malformed").
Frames == {"heartbeat", "ui-updated", "null", "malformed"}
NoFrame == "<none>"

MsgIdle ==
  /\ handlersRef = <<>>
  /\ lastMsg = NoFrame
  /\ invoked = <<>>

\* subscribe(handler): handlersRef.current.add(handler)
subscribe(h) ==
  /\ h \notin Range(handlersRef)
  /\ handlersRef' = Append(handlersRef, h)
  /\ UNCHANGED <<lastMsg, invoked>>

\* The function subscribe returned: handlersRef.current.delete(handler)
unsubscribe(h) ==
  /\ h \in Range(handlersRef)
  /\ handlersRef' = SelectSeq(handlersRef, LAMBDA x : x # h)
  /\ UNCHANGED <<lastMsg, invoked>>

\* for (const handler of handlersRef.current) handler(data): the handlers
\* called until one throws.
RECURSIVE CalledOf(_)
CalledOf(hs) ==
  IF hs = <<>> THEN <<>>
  ELSE IF Head(hs) = Thrower THEN <<Head(hs)>>
  ELSE <<Head(hs)>> \o CalledOf(Tail(hs))

\* Mutant: dispatch without the heartbeat filter.
Dispatch_noFilter(frame) ==
  IF frame \in {"malformed", "null"} THEN <<>> ELSE CalledOf(handlersRef)

\* The try block of onmessage: JSON.parse, the heartbeat filter, the loop over
\* the handlers; whatever throws is caught and ignored.
Dispatch(frame) ==
  IF frame \in {"malformed", "null"} THEN <<>>
  ELSE IF frame = "heartbeat" THEN <<>>
  ELSE CalledOf(handlersRef)

\* es.onmessage of EventSource e
OnMessage(e, frame) ==
  /\ esState[e] = "open"
  /\ lastMsg' = frame
  /\ invoked' = IF ~mountedRef THEN <<>> ELSE Dispatch(frame)
  /\ UNCHANGED handlersRef

(***************************************************************************)
(* introspectEntity: TTL cache and in-flight request de-duplication        *)
(***************************************************************************)

MaxCalls == 3       \* introspectEntity calls in one run
MaxVersion == 1     \* distinct list responses the backend may give

IntroSkills == {"s1", "s2"}
IntroKeys == {<<"s1", "list-a">>, <<"s1", "list-b">>, <<"s2", "list-a">>}
Calls == 1..MaxCalls
\* What _doIntrospect resolves to: NoSchema (null), or the schema of response version v.
NoSchema == 0
Schemas == 1..MaxVersion
NoEntry == [schema |-> NoSchema, fresh |-> FALSE]

InitIntrospect ==
  /\ inCache = [k \in IntroKeys |-> NoEntry]
  /\ pendingRequests = [k \in IntroKeys |-> 0]
  /\ reqState = [c \in Calls |-> "none"]
  /\ reqValue = [c \in Calls |-> NoSchema]
  /\ callKey = [c \in Calls |-> NULL]
  /\ callState = [c \in Calls |-> "idle"]
  /\ callPromise = [c \in Calls |-> 0]
  /\ callResult = [c \in Calls |-> NoSchema]
  /\ callDuring = [c \in Calls |-> 0]

\* Calls are numbered in the order they are made.
NextCall == CHOOSE c \in Calls : callState[c] = "idle" /\ callKey[c] = NULL
                                 /\ \A d \in Calls : (callState[d] = "idle" /\ callKey[d] = NULL) => c <= d

CacheHit(k) == inCache[k] # NoEntry /\ inCache[k].fresh

\* The requests in flight for key k.
InflightFor(k) == {p \in Calls : reqState[p] = "inflight" /\ callKey[p] = k}

AnyInflight(k) == IF InflightFor(k) = {} THEN 0 ELSE CHOOSE p \in InflightFor(k) : TRUE

\* Mutant: no check of pendingRequests before issuing the request.
introspectEntity_noDedup(c, k) ==
  /\ callKey' = [callKey EXCEPT ![c] = k]
  /\ callDuring' = [callDuring EXCEPT ![c] = AnyInflight(k)]
  /\ IF CacheHit(k)
     THEN /\ callState' = [callState EXCEPT ![c] = "done"]
          /\ callResult' = [callResult EXCEPT ![c] = inCache[k].schema]
          /\ UNCHANGED <<pendingRequests, reqState, callPromise>>
     ELSE /\ reqState' = [reqState EXCEPT ![c] = "inflight"]
          /\ pendingRequests' = [pendingRequests EXCEPT ![k] = c]
          /\ callState' = [callState EXCEPT ![c] = "awaiting"]
          /\ callPromise' = [callPromise EXCEPT ![c] = c]
          /\ UNCHANGED callResult
  /\ UNCHANGED <<inCache, reqValue>>

\* introspectEntity(skill, listAction) up to its first suspension.
introspectEntity(c, k) ==
  /\ callKey' = [callKey EXCEPT ![c] = k]
  /\ callDuring' = [callDuring EXCEPT ![c] = AnyInflight(k)]
  /\ IF CacheHit(k)
     THEN /\ callState' = [callState EXCEPT ![c] = "done"]
          /\ callResult' = [callResult EXCEPT ![c] = inCache[k].schema]
          /\ UNCHANGED <<pendingRequests, reqState, callPromise>>
     ELSE IF pendingRequests[k] # 0
     THEN /\ callState' = [callState EXCEPT ![c] = "awaiting"]
          /\ callPromise' = [callPromise EXCEPT ![c] = pendingRequests[k]]
          /\ UNCHANGED <<pendingRequests, reqState, callResult>>
     ELSE /\ reqState' = [reqState EXCEPT ![c] = "inflight"]       \* _doIntrospect: fetch
          /\ pendingRequests' = [pendingRequests EXCEPT ![k] = c]
          /\ callState' = [callState EXCEPT ![c] = "awaiting"]
          /\ callPromise' = [callPromise EXCEPT ![c] = c]
          /\ UNCHANGED callResult
  /\ UNCHANGED <<inCache, reqValue>>

Call(k) ==
  /\ \E c \in Calls : callState[c] = "idle" /\ callKey[c] = NULL
  /\ introspectEntity(NextCall, k)

\* _doIntrospect after the fetch: v = NoSchema stands for every soft failure (fetch
\* throws, !res.ok, status # "ok", no array key, empty array).
doIntrospectReturn(p, v) ==
  /\ reqState[p] = "inflight"
  /\ reqState' = [reqState EXCEPT ![p] = "settled"]
  /\ reqValue' = [reqValue EXCEPT ![p] = v]
  /\ inCache' = IF v = NoSchema THEN inCache
                ELSE [inCache EXCEPT ![callKey[p]] = [schema |-> v, fresh |-> TRUE]]
  /\ UNCHANGED <<pendingRequests, callKey, callState, callPromise, callResult, callDuring>>

\* A suspended introspectEntity call resumes once the promise it awaits has
\* settled; the call that issued the request runs its finally block.
Resume(c) ==
  /\ callState[c] = "awaiting"
  /\ reqState[callPromise[c]] = "settled"
  /\ callState' = [callState EXCEPT ![c] = "done"]
  /\ callResult' = [callResult EXCEPT ![c] = reqValue[callPromise[c]]]
  /\ pendingRequests' = IF callPromise[c] = c
                        THEN [pendingRequests EXCEPT ![callKey[c]] = 0]
                        ELSE pendingRequests
  /\ UNCHANGED <<inCache, reqState, reqValue, callKey, callPromise, callDuring>>

\* Time passes beyond CACHE_TTL for an entry.
Expire(k) ==
  /\ CacheHit(k)
  /\ inCache' = [inCache EXCEPT ![k].fresh = FALSE]
  /\ UNCHANGED <<pendingRequests, reqState, reqValue, callKey, callState, callPromise,
                 callResult, callDuring>>

\* The loop stopping after the first key it deletes.
clearIntrospectionCache_firstOnly(sk) ==
  /\ inCache' = IF sk = NULL THEN [k \in IntroKeys |-> NoEntry]
                ELSE IF \E k \in IntroKeys : k[1] = sk /\ inCache[k] # NoEntry
                THEN [inCache EXCEPT
                        ![CHOOSE k \in IntroKeys : k[1] = sk /\ inCache[k] # NoEntry] = NoEntry]
                ELSE inCache
  /\ UNCHANGED <<pendingRequests, reqState, reqValue, callKey, callState, callPromise,
                 callResult, callDuring>>

\* clearIntrospectionCache(skill?): sk = NULL stands for the call without argument.
clearIntrospectionCache(sk) ==
  /\ inCache' = [k \in IntroKeys |->
                   IF sk = NULL \/ k[1] = sk THEN NoEntry ELSE inCache[k]]
  /\ UNCHANGED <<pendingRequests, reqState, reqValue, callKey, callState, callPromise,
                 callResult, callDuring>>

NextIntrospect ==
  \/ \E k \in IntroKeys : Call(k) /\ UNCHANGED <<evVars, cardVars, formVars, pageVars, msgVars, fnVars, hsVars, chatVars>>
  \/ \E p \in Calls, v \in Schemas \cup {NoSchema} : doIntrospectReturn(p, v) /\ UNCHANGED <<evVars, cardVars, formVars, pageVars, msgVars, fnVars, hsVars, chatVars>>
  \/ \E c \in Calls : Resume(c) /\ UNCHANGED <<evVars, cardVars, formVars, pageVars, msgVars, fnVars, hsVars, chatVars>>
  \/ \E k \in IntroKeys : Expire(k) /\ UNCHANGED <<evVars, cardVars, formVars, pageVars, msgVars, fnVars, hsVars, chatVars>>
  \/ \E sk \in IntroSkills \cup {NULL} : clearIntrospectionCache(sk) /\ UNCHANGED <<evVars, cardVars, formVars, pageVars, msgVars, fnVars, hsVars, chatVars>>

(***************************************************************************)
(* ConfirmationCard                                                        *)
(***************************************************************************)

MaxCardFields == 2     \* fields a composition may mention

UNDEF == "<undefined>"                 \* a key missing from a JS object
Strings == {"", " ", "x"}              \* typed text: empty, whitespace only, non-blank

\* String.prototype.trim on the strings of the model.
Trim(v) == IF v = " " THEN "" ELSE v

CardFields == 1..MaxCardFields

\* The part a field plays in a composition; the resolved ones carry a
\* confidence, in hundredths (0.8 is 80).
Roles == {"absent", "unresolved", "guessed", "stated"}
ConfidenceOf(role) == IF role = "stated" THEN 80 ELSE 50

\* The CompositionResult in which field f has role roles[f]: left out,
\* unresolved, or resolved with the given confidence; fields in ascending order.
RECURSIVE ResolvedOf(_, _)
ResolvedOf(roles, n) ==
  IF n = 0 THEN <<>>
  ELSE ResolvedOf(roles, n - 1) \o
       (IF roles[n] \in {"guessed", "stated"}
        THEN <<[field |-> n, value |-> "x", confidence |-> ConfidenceOf(roles[n]),
                source |-> "conversation"]>>
        ELSE <<>>)

RECURSIVE UnresolvedOf(_, _)
UnresolvedOf(roles, n) ==
  IF n = 0 THEN <<>>
  ELSE UnresolvedOf(roles, n - 1) \o (IF roles[n] = "unresolved" THEN <<n>> ELSE <<>>)

CompositionOf(roles) ==
  [action |-> "add-customer",
   resolved_fields |-> ResolvedOf(roles, MaxCardFields),
   unresolved_fields |-> UnresolvedOf(roles, MaxCardFields)]

NoComposition == [action |-> "", resolved_fields |-> <<>>, unresolved_fields |-> <<>>]

CardIdle ==
  /\ composition = NoComposition
  /\ cardRequired = {}
  /\ editingField = 0
  /\ resolvedOverrides = [f \in CardFields |-> UNDEF]
  /\ unresolvedValues = [f \in CardFields |-> UNDEF]
  /\ cardSubmitting = FALSE
  /\ expanded = FALSE

\* The card as first rendered for a composition; unresolved fields are
\* required fields of the action (composition-types: "required fields with no
\* value yet"), other required fields may be among the resolved ones.
InitCard ==
  /\ \E roles \in [CardFields -> Roles] :
       /\ composition = CompositionOf(roles)
       /\ \E req \in SUBSET {f \in CardFields : roles[f] # "absent"} :
            /\ {f \in CardFields : roles[f] = "unresolved"} \subseteq req
            /\ cardRequired = req
  /\ editingField = 0
  /\ resolvedOverrides = [f \in CardFields |-> UNDEF]
  /\ unresolvedValues = [f \in CardFields |-> UNDEF]
  /\ cardSubmitting = FALSE
  /\ expanded = FALSE

\* x || "" for a string-or-undefined x
OrEmpty(v) == IF v = UNDEF \/ v = "" THEN "" ELSE v

\* Mutant: a || b, which also replaces an empty string.
Coalesce_or(a, b) == IF a = UNDEF \/ a = "" THEN b ELSE a

\* a ?? b
Coalesce(a, b) == IF a = UNDEF THEN b ELSE a

hasUnresolved == Len(composition.unresolved_fields) > 0

\* Mutant: `some` in place of `every`.
allUnresolvedFilled_some ==
  \E i \in 1..Len(composition.unresolved_fields) :
     Trim(OrEmpty(unresolvedValues[composition.unresolved_fields[i]])) # ""

allUnresolvedFilled ==
  \A i \in 1..Len(composition.unresolved_fields) :
     Trim(OrEmpty(unresolvedValues[composition.unresolved_fields[i]])) # ""

canSubmit == ~hasUnresolved \/ allUnresolvedFilled

\* Mutant: 0.8 itself is not high confidence.
highConfidence_above == SelectSeq(composition.resolved_fields, LAMBDA f : f.confidence > 80)

highConfidence == SelectSeq(composition.resolved_fields, LAMBDA f : f.confidence >= 80)
lowConfidence == SelectSeq(composition.resolved_fields, LAMBDA f : f.confidence < 80)

\* The fields whose FieldRow is on screen.
RenderedRows == {f.field : f \in Range(highConfidence)}
                  \cup (IF expanded THEN {f.field : f \in Range(lowConfidence)} ELSE {})

\* handleSubmit's params object: key -> value, UNDEF for a key not set.
RECURSIVE PutResolved(_, _)
PutResolved(params, i) ==
  IF i > Len(composition.resolved_fields) THEN params
  ELSE LET f == composition.resolved_fields[i]
       IN PutResolved([params EXCEPT ![f.field] = Coalesce(resolvedOverrides[f.field], f.value)], i + 1)

RECURSIVE PutUnresolved(_, _)
PutUnresolved(params, i) ==
  IF i > Len(composition.unresolved_fields) THEN params
  ELSE LET f == composition.unresolved_fields[i]
       IN PutUnresolved([params EXCEPT ![f] = OrEmpty(unresolvedValues[f])], i + 1)

CardParams == PutUnresolved(PutResolved([f \in CardFields |-> UNDEF], 1), 1)

\* UnresolvedRow onChange
ChangeUnresolved(f, v) ==
  /\ f \in Range(composition.unresolved_fields)
  /\ unresolvedValues' = [unresolvedValues EXCEPT ![f] = v]
  /\ UNCHANGED <<composition, cardRequired, editingField, resolvedOverrides, cardSubmitting,
                 expanded>>

\* FieldRow onEdit
ToggleEdit(f) ==
  /\ f \in RenderedRows
  /\ editingField' = IF editingField = f THEN 0 ELSE f
  /\ UNCHANGED <<composition, cardRequired, resolvedOverrides, unresolvedValues, cardSubmitting,
                 expanded>>

ToggleExpanded ==
  /\ Len(lowConfidence) > 0
  /\ expanded' = ~expanded
  /\ UNCHANGED <<composition, cardRequired, editingField, resolvedOverrides, unresolvedValues,
                 cardSubmitting>>

\* handleFieldUpdate(field, value), called by the FieldRow being edited
handleFieldUpdate(f, v) ==
  /\ f \in RenderedRows
  /\ editingField = f
  /\ resolvedOverrides' = [resolvedOverrides EXCEPT ![f] = v]
  /\ editingField' = 0
  /\ UNCHANGED <<composition, cardRequired, unresolvedValues, cardSubmitting, expanded>>

\* handleSubmit up to `await onSubmit(params)`; the button is disabled while
\* submitting.
cardHandleSubmit ==
  /\ composition # NoComposition
  /\ ~cardSubmitting
  /\ IF ~canSubmit
     THEN UNCHANGED cardSubmitting
     ELSE cardSubmitting' = TRUE
  /\ UNCHANGED <<composition, cardRequired, editingField, resolvedOverrides, unresolvedValues,
                 expanded>>

\* onSubmit settles (resolved or rejected): finally { setSubmitting(false) }
cardSubmitSettled ==
  /\ cardSubmitting
  /\ cardSubmitting' = FALSE
  /\ UNCHANGED <<composition, cardRequired, editingField, resolvedOverrides, unresolvedValues,
                 expanded>>

NextCard ==
  \/ \E f \in CardFields, v \in Strings : ChangeUnresolved(f, v) /\ UNCHANGED <<evVars, inVars, formVars, pageVars, msgVars, fnVars, hsVars, chatVars>>
  \/ \E f \in CardFields : ToggleEdit(f) /\ UNCHANGED <<evVars, inVars, formVars, pageVars, msgVars, fnVars, hsVars, chatVars>>
  \/ ToggleExpanded /\ UNCHANGED <<evVars, inVars, formVars, pageVars, msgVars, fnVars, hsVars, chatVars>>
  \/ \E f \in CardFields, v \in Strings : handleFieldUpdate(f, v) /\ UNCHANGED <<evVars, inVars, formVars, pageVars, msgVars, fnVars, hsVars, chatVars>>
  \/ cardHandleSubmit /\ UNCHANGED <<evVars, inVars, formVars, pageVars, msgVars, fnVars, hsVars, chatVars>>
  \/ cardSubmitSettled /\ UNCHANGED <<evVars, inVars, formVars, pageVars, msgVars, fnVars, hsVars, chatVars>>

(***************************************************************************)
(* DynamicForm                                                             *)
(***************************************************************************)

MaxRows == 2           \* rows the user adds to a section without max_rows

NoMax == -1            \* max_rows: undefined
ScalarKeys == {"name", "email"}
RowKeys == {"item"}

\* resolveDefault(def) for undefined and for plain strings
resolveDefault(def) == IF def = UNDEF THEN "" ELSE def

FormFieldSpec(k, req, def) == [key |-> k, label |-> k, required |-> req, default |-> def]

\* The FormSpecs handed to the form: one "fields" section and one repeatable
\* section, line items after the header fields.
FormSpecs ==
  { [title |-> "New Invoice",
     submit_action |-> "add-invoice",
     sections |-> << [label |-> "Details", type |-> "fields", key |-> UNDEF,
                      min_rows |-> 0, max_rows |-> NoMax,
                      fields |-> << FormFieldSpec("name", r1, d), FormFieldSpec("email", r2, UNDEF) >>],
                     [label |-> "Items", type |-> "repeatable", key |-> "items",
                      min_rows |-> mn, max_rows |-> mx,
                      fields |-> << FormFieldSpec("item", r3, UNDEF) >>] >>] :
      r1 \in BOOLEAN, r2 \in BOOLEAN, r3 \in BOOLEAN, d \in {UNDEF, "x"},
      mn \in {0, 1, 2}, mx \in {NoMax, 1} }

NoFormSpec == [title |-> "", submit_action |-> "", sections |-> <<>>]

NoToast == [type |-> "none", kind |-> "none", section |-> 0, row |-> 0, field |-> ""]

FormIdle ==
  /\ formSpec = NoFormSpec
  /\ fields = [k \in ScalarKeys |-> ""]
  /\ repeatables = <<>>
  /\ formSubmitting = FALSE
  /\ toast = NoToast

\* The row addRow and the repeatables initialiser build for a section.
NewRow(section) ==
  [k \in {section.fields[i].key : i \in 1..Len(section.fields)} |->
     resolveDefault((CHOOSE f \in Range(section.fields) : f.key = k).default)]

\* useState initialisers of DynamicForm; `repeatables` holds the rows of the
\* (single) repeatable section.
InitForm ==
  /\ formSpec \in FormSpecs
  /\ fields = [k \in ScalarKeys |->
                 resolveDefault((CHOOSE f \in Range(formSpec.sections[1].fields) : f.key = k).default)]
  /\ repeatables = << NewRow(formSpec.sections[2]) >>
  /\ formSubmitting = FALSE
  /\ toast = NoToast

\* !v for a string
Falsy(v) == v = "" \/ v = UNDEF

\* Index of the first field of fs that is required and falsy in rec; 0 if none.
RECURSIVE FirstMissing(_, _, _)
FirstMissing(fs, rec, i) ==
  IF i > Len(fs) THEN 0
  ELSE IF fs[i].required /\ Falsy(rec[fs[i].key]) THEN i
  ELSE FirstMissing(fs, rec, i + 1)

\* First row of rows with a missing required field, from row i on; 0 if none.
RECURSIVE FirstBadRow(_, _, _)
FirstBadRow(fs, rows, i) ==
  IF i > Len(rows) THEN 0
  ELSE IF FirstMissing(fs, rows[i], 1) # 0 THEN i
  ELSE FirstBadRow(fs, rows, i + 1)

\* validate(), from section s on: the first error message, NoToast for null.
RECURSIVE validateFrom(_)
validateFrom(s) ==
  IF s > Len(formSpec.sections) THEN NoToast
  ELSE LET section == formSpec.sections[s]
       IN IF section.type = "repeatable" /\ section.key # UNDEF
          THEN IF section.min_rows > 0 /\ Len(repeatables) = 0
               THEN [type |-> "error", kind |-> "min_rows", section |-> s, row |-> 0, field |-> ""]
               ELSE LET r == FirstBadRow(section.fields, repeatables, 1)
                    IN IF r # 0
                       THEN [type |-> "error", kind |-> "required", section |-> s, row |-> r,
                             field |-> section.fields[FirstMissing(section.fields, repeatables[r], 1)].key]
                       ELSE validateFrom(s + 1)
          ELSE LET i == FirstMissing(section.fields, fields, 1)
               IN IF i # 0
                  THEN [type |-> "error", kind |-> "required", section |-> s, row |-> 0,
                        field |-> section.fields[i].key]
                  ELSE validateFrom(s + 1)

validate == validateFrom(1)

updateField(k, v) ==
  /\ formSpec # NoFormSpec
  /\ fields' = [fields EXCEPT ![k] = v]
  /\ UNCHANGED <<formSpec, repeatables, formSubmitting, toast>>

\* RepeatableGroup.addRow; the button is disabled at max_rows.
addRow ==
  /\ formSpec # NoFormSpec
  /\ LET section == formSpec.sections[2]
     IN /\ ~(section.max_rows # NoMax /\ Len(repeatables) >= section.max_rows)
        /\ Len(repeatables) < MaxRows
        /\ repeatables' = Append(repeatables, NewRow(section))
  /\ UNCHANGED <<formSpec, fields, formSubmitting, toast>>

\* RepeatableGroup.removeRow(index); the button is disabled at min_rows.
removeRow(index) ==
  /\ formSpec # NoFormSpec
  /\ index \in 1..Len(repeatables)
  /\ ~(Len(repeatables) <= formSpec.sections[2].min_rows)
  /\ repeatables' = [i \in 1..(Len(repeatables) - 1) |->
                       IF i < index THEN repeatables[i] ELSE repeatables[i + 1]]
  /\ UNCHANGED <<formSpec, fields, formSubmitting, toast>>

updateCell(rowIndex, k, v) ==
  /\ formSpec # NoFormSpec
  /\ rowIndex \in 1..Len(repeatables)
  /\ repeatables' = [repeatables EXCEPT ![rowIndex] = [@ EXCEPT ![k] = v]]
  /\ UNCHANGED <<formSpec, fields, formSubmitting, toast>>

\* handleSubmit up to `await postAction(...)`; the button is disabled while
\* submitting.
formHandleSubmit ==
  /\ formSpec # NoFormSpec
  /\ ~formSubmitting
  /\ LET error == validate
     IN IF error # NoToast
        THEN /\ toast' = error
             /\ UNCHANGED formSubmitting
        ELSE /\ formSubmitting' = TRUE
             /\ UNCHANGED toast
  /\ UNCHANGED <<formSpec, fields, repeatables>>

\* postAction settles: success toast, error toast, or the catch block.
formSubmitSettled(outcome) ==
  /\ formSubmitting
  /\ toast' = [type |-> IF outcome = "ok" THEN "success" ELSE "error",
               kind |-> outcome, section |-> 0, row |-> 0, field |-> ""]
  /\ formSubmitting' = FALSE
  /\ UNCHANGED <<formSpec, fields, repeatables>>

NextForm ==
  \/ \E k \in ScalarKeys, v \in Strings : updateField(k, v) /\ UNCHANGED <<evVars, inVars, cardVars, pageVars, msgVars, fnVars, hsVars, chatVars>>
  \/ addRow /\ UNCHANGED <<evVars, inVars, cardVars, pageVars, msgVars, fnVars, hsVars, chatVars>>
  \/ \E i \in 1..MaxRows : removeRow(i) /\ UNCHANGED <<evVars, inVars, cardVars, pageVars, msgVars, fnVars, hsVars, chatVars>>
  \/ \E i \in 1..MaxRows, k \in RowKeys, v \in Strings : updateCell(i, k, v) /\ UNCHANGED <<evVars, inVars, cardVars, pageVars, msgVars, fnVars, hsVars, chatVars>>
  \/ formHandleSubmit /\ UNCHANGED <<evVars, inVars, cardVars, pageVars, msgVars, fnVars, hsVars, chatVars>>
  \/ \E o \in {"ok", "failed", "exception"} : formSubmitSettled(o) /\ UNCHANGED <<evVars, inVars, cardVars, pageVars, msgVars, fnVars, hsVars, chatVars>>

(***************************************************************************)
(* Form specs from UI.yaml (src/web/src/lib/ui-yaml-to-form.ts)            *)
(***************************************************************************)

\* Identifiers that the code converts between snake_case and kebab-case are
\* kept as their words and their separator; a one-word identifier has none.
Name(sep, words) == [sep |-> IF Len(words) > 1 THEN sep ELSE "", words |-> words]
Snake(words) == Name("_", words)
Kebab(words) == Name("-", words)
NoName == Name("", <<>>)           \* undefined or ""

\* s.replace(/_/g, "-")
UnderscoresToHyphens(n) == IF n.sep = "_" THEN Kebab(n.words) ELSE n

\* s.replace(/-/g, "_")
HyphensToUnderscores(n) == IF n.sep = "-" THEN Snake(n.words) ELSE n

\* action.startsWith(first + "-")
StartsWith(n, first) == n.sep = "-" /\ Len(n.words) > 1 /\ n.words[1] = first

\* action.slice(prefix.length), for a prefix of one word and a hyphen
SlicePrefix(n) == Kebab(Tail(n.words))

SELLING == "erpclaw-selling"
SETUP == "erpclaw-setup"
PageSkills == {SELLING, SETUP}

AddCustomer == Kebab(<<"add", "customer">>)
AddSalesInvoice == Kebab(<<"add", "sales", "invoice">>)
ListCustomers == Kebab(<<"list", "customers">>)
AddCompany == Kebab(<<"add", "company">>)
Actions == {AddCustomer, AddSalesInvoice, ListCustomers, AddCompany}

mapFieldType(uiType) ==
  CASE uiType = "link" -> "entity-lookup"
    [] uiType = "currency" -> "currency"
    [] uiType \in {"number", "integer", "quantity", "percent"} -> "number"
    [] uiType \in {"date", "datetime"} -> "date"
    [] uiType = "textarea" -> "textarea"
    [] uiType = "select" -> "select"
    [] uiType = "boolean" -> "boolean"
    [] OTHER -> "text"

\* ACTION_SKILL_MAP[searchAction], for the list actions of the model
resolveEntitySkill(searchAction) ==
  CASE searchAction = Kebab(<<"list", "companies">>) -> SETUP
    [] searchAction = Kebab(<<"list", "customers">>) -> SELLING
    [] searchAction = Kebab(<<"list", "items">>) -> "erpclaw-inventory"
    [] OTHER -> UNDEF

ENTITY_ACTION_OVERRIDES(linkEntity) ==
  CASE linkEntity = Snake(<<"delivery", "note">>) -> Kebab(<<"list", "delivery", "notes">>)
    [] linkEntity = Snake(<<"stock", "entry">>) -> Kebab(<<"list", "stock", "entries">>)
    [] OTHER -> NoName

\* The plural inferSearchAction forms from the last letter of the name.
Pluralise(word) ==
  CASE word = "customer" -> "customers"
    [] word = "company" -> "companies"
    [] word = "item" -> "items"
    [] word = "address" -> "address"
    [] OTHER -> word

inferSearchAction(linkEntity) ==
  IF linkEntity = NoName THEN NoName
  ELSE IF ENTITY_ACTION_OVERRIDES(linkEntity) # NoName THEN ENTITY_ACTION_OVERRIDES(linkEntity)
  ELSE LET w == UnderscoresToHyphens(linkEntity).words
       IN Kebab(<<"list">> \o SubSeq(w, 1, Len(w) - 1) \o <<Pluralise(w[Len(w)])>>)

\* A FieldDef of UI.yaml with its key; "" and 0 stand for an omitted
\* form_group and form_order.
FieldDef(key, type, label, required) ==
  [key |-> key, type |-> type, label |-> label, required |-> required,
   read_only |-> FALSE, hidden |-> FALSE, default |-> UNDEF, param_name |-> NoName,
   in_form_view |-> TRUE, form_group |-> "", form_order |-> 0,
   link_entity |-> NoName, link_search_action |-> NoName, options |-> <<>>]

fieldDefToFormField(key, field, currentSkill) ==
  LET searchAction == IF field.link_search_action # NoName THEN field.link_search_action
                      ELSE inferSearchAction(field.link_entity)
      isLink == field.type = "link" /\ searchAction # NoName
      ownerSkill == resolveEntitySkill(searchAction)
  IN [key |-> IF field.param_name # NoName THEN field.param_name ELSE UnderscoresToHyphens(key),
      label |-> field.label,
      type |-> mapFieldType(field.type),
      required |-> field.required,
      default |-> field.default,
      options |-> field.options,
      entity_action |-> IF isLink THEN searchAction ELSE NoName,
      entity_skill |-> IF isLink /\ ownerSkill # UNDEF /\ ownerSkill # currentSkill
                       THEN ownerSkill ELSE UNDEF]

\* fields.map(f => fieldDefToFormField(f.key, f.field, sk))
FormFieldsOf(defs, sk) ==
  [i \in 1..Len(defs) |-> fieldDefToFormField(defs[i].key, defs[i], sk)]

\* Array.prototype.sort((a, b) => a.order - b.order), which is stable
RECURSIVE InsertByOrder(_, _)
InsertByOrder(s, x) ==
  IF s = <<>> THEN <<x>>
  ELSE IF Head(s).order <= x.order THEN <<Head(s)>> \o InsertByOrder(Tail(s), x)
  ELSE <<x>> \o s

RECURSIVE SortByOrder(_)
SortByOrder(s) ==
  IF s = <<>> THEN <<>>
  ELSE InsertByOrder(SortByOrder(SubSeq(s, 1, Len(s) - 1)), s[Len(s)])

\* A FormSectionSpec; UNDEF, NoName and 0 stand for omitted type, key,
\* columns and min_rows. Titles and section labels are kept as the pieces
\* they are put together from.
FieldsSection(label, columns, fs) ==
  [label |-> label, columns |-> columns, type |-> UNDEF, key |-> NoName, min_rows |-> 0,
   fields |-> fs]

RepeatableSection(label, key, fs) ==
  [label |-> label, columns |-> 0, type |-> "repeatable", key |-> key, min_rows |-> 1,
   fields |-> fs]

\* groupedFields[group]: the form fields of the group, with their sort order
groupedFields(entity, group) ==
  LET shown == SelectSeq(entity.fields,
                         LAMBDA f : f.in_form_view /\ ~f.read_only /\ ~f.hidden
                                    /\ (IF f.form_group = "" THEN "_default" ELSE f.form_group) = group)
  IN [i \in 1..Len(shown) |->
        [field |-> shown[i], key |-> shown[i].key,
         order |-> IF shown[i].form_order = 0 THEN 99 ELSE shown[i].form_order]]

\* Object.entries(childEntities).find(([, cd]) => cd.parent_entity === key):
\* a one-element sequence, or empty.
matchedChildOf(childEntities, resolvedEntityKey) ==
  LET found == SelectSeq(childEntities, LAMBDA cd : cd.parent_entity = resolvedEntityKey)
  IN IF found = <<>> THEN <<>> ELSE <<Head(found)>>

\* Object.entries(childDef.fields).filter(...).map(...)
childFieldsOf(childDef, sk) ==
  FormFieldsOf(SelectSeq(childDef.fields, LAMBDA f : ~f.read_only /\ ~f.hidden), sk)

\* The sections one form group contributes (one iteration of the loop over
\* sortedGroups).
GroupSections(entity, sk, childEntities, hasChildEntities, resolvedEntityKey, groupDef) ==
  LET matched == matchedChildOf(childEntities, resolvedEntityKey)
      group == groupedFields(entity, groupDef.key)
      jsonFields == SelectSeq(group, LAMBDA f : f.field.type = "json")
      sorted == SortByOrder(group)
  IN IF groupDef.type = "child_table"
     THEN IF matched # <<>>
          THEN << RepeatableSection(<<groupDef.label>>,
                                    IF matched[1].param_name # NoName THEN matched[1].param_name
                                    ELSE Name("", <<"items">>),
                                    childFieldsOf(matched[1], sk)) >>
          ELSE <<>>
     ELSE IF group # <<>> /\ hasChildEntities /\ jsonFields # <<>> /\ matched # <<>>
     THEN << RepeatableSection(<<groupDef.label>>,
                               IF matched[1].param_name # NoName THEN matched[1].param_name
                               ELSE jsonFields[1].key,
                               childFieldsOf(matched[1], sk)) >>
     ELSE IF group = <<>> THEN <<>>
     ELSE << FieldsSection(<<groupDef.label>>,
                           IF groupDef.columns = 0 THEN 1 ELSE groupDef.columns,
                           FormFieldsOf([i \in 1..Len(sorted) |-> sorted[i].field], sk)) >>

RECURSIVE GroupSectionsFrom(_, _, _, _, _, _, _)
GroupSectionsFrom(entity, sk, childEntities, hasChildEntities, resolvedEntityKey, groups, i) ==
  IF i > Len(groups) THEN <<>>
  ELSE GroupSections(entity, sk, childEntities, hasChildEntities, resolvedEntityKey, groups[i])
       \o GroupSectionsFrom(entity, sk, childEntities, hasChildEntities, resolvedEntityKey,
                            groups, i + 1)

findEntityKey(entity) == entity.table

buildFormSections(entity, sk, childEntities, hasChildEntities, entityKey) ==
  LET sortedGroups == SortByOrder(entity.form_groups)
      resolvedEntityKey == IF entityKey # "" THEN entityKey ELSE findEntityKey(entity)
      defaultFields == SortByOrder(groupedFields(entity, "_default"))
  IN GroupSectionsFrom(entity, sk, childEntities, hasChildEntities, resolvedEntityKey,
                       sortedGroups, 1)
     \o (IF defaultFields # <<>>
         THEN << FieldsSection(<<"Details">>, 2,
                               FormFieldsOf([i \in 1..Len(defaultFields) |-> defaultFields[i].field],
                                            sk)) >>
         ELSE <<>>)

\* entity.fields[fieldKey]: a one-element sequence, or empty.
FieldNamed(entity, fieldKey) == SelectSeq(entity.fields, LAMBDA f : f.key = fieldKey)

\* The sections one group of an explicit form view contributes.
FormViewGroupSections(group, entity, childEntities, sk) ==
  LET childDef == SelectSeq(childEntities, LAMBDA cd : cd.key = group.child_entity)
      named == [i \in 1..Len(group.fields) |-> FieldNamed(entity, group.fields[i])]
      usable == SelectSeq(named, LAMBDA d : d # <<>> /\ ~d[1].read_only /\ ~d[1].hidden)
      formFields == FormFieldsOf([i \in 1..Len(usable) |-> usable[i][1]], sk)
  IN IF group.type = "child_table" /\ group.child_entity # ""
     THEN IF childDef # <<>>
          THEN << RepeatableSection(<<group.label>>,
                                    IF childDef[1].param_name # NoName THEN childDef[1].param_name
                                    ELSE Name("", <<"items">>),
                                    childFieldsOf(childDef[1], sk)) >>
          ELSE <<>>
     ELSE IF formFields # <<>>
     THEN << FieldsSection(<<group.label>>, IF group.columns = 0 THEN 1 ELSE group.columns, formFields) >>
     ELSE <<>>

RECURSIVE buildFormSectionsFromFormView(_, _, _, _, _)
buildFormSectionsFromFormView(formView, entity, childEntities, sk, i) ==
  IF i > Len(formView) THEN <<>>
  ELSE FormViewGroupSections(formView[i], entity, childEntities, sk)
       \o buildFormSectionsFromFormView(formView, entity, childEntities, sk, i + 1)

\* null, for a FormSpec
NoSpec == [title |-> <<>>, submit_action |-> NoName, submit_label |-> <<>>, sections |-> <<>>]

\* config.action_map?.[action] and config.entities?.[key]: a one-element
\* sequence, or empty.
ActionEntry(config, action) == SelectSeq(config.action_map, LAMBDA e : e.action = action)
EntityNamed(config, key) == SelectSeq(config.entities, LAMBDA e : e.key = key)

generateFormSpec(config, action) ==
  LET actionEntry == ActionEntry(config, action)
  IN IF actionEntry = <<>> THEN NoSpec
     ELSE IF actionEntry[1].component # "FormView" THEN NoSpec
     ELSE IF actionEntry[1].entity = "" THEN NoSpec
     ELSE LET found == EntityNamed(config, actionEntry[1].entity)
          IN IF found = <<>> THEN NoSpec
             ELSE LET entity == found[1]
                      sections ==
                        IF entity.has_form_view
                        THEN buildFormSectionsFromFormView(entity.form_view, entity,
                                                           config.child_entities, config.skill, 1)
                        ELSE buildFormSections(entity, config.skill, config.child_entities,
                                               config.has_child_entities, actionEntry[1].entity)
                      isCreate == actionEntry[1].mode = "create"
                  IN IF sections = <<>> THEN NoSpec
                     ELSE [title |-> <<IF isCreate THEN "New" ELSE "Edit", entity.label>>,
                           submit_action |-> action,
                           submit_label |-> <<IF isCreate THEN "Create" ELSE "Update", entity.label>>,
                           sections |-> sections]

(***************************************************************************)
(* Form specs from SKILL.md parameter metadata (auto-form-spec)            *)
(***************************************************************************)

\* ACTION_PREFIXES[first + "-"]; UNDEF when the table has no such prefix
ACTION_PREFIXES(first) ==
  CASE first \in {"add", "create"} -> "New"
    [] first = "update" -> "Update"
    [] first = "submit" -> "Submit"
    [] first = "cancel" -> "Cancel"
    [] first = "delete" -> "Delete"
    [] first = "confirm" -> "Confirm"
    [] first = "complete" -> "Complete"
    [] first = "approve" -> "Approve"
    [] first = "reject" -> "Reject"
    [] first = "check" -> "Check"
    [] first \in {"get", "list"} -> ""
    [] first \in {"seed", "setup"} -> "Setup"
    [] first = "generate" -> "Generate"
    [] first = "compute" -> "Compute"
    [] first = "validate" -> "Validate"
    [] OTHER -> UNDEF

HasPrefix(action) == Len(action.words) > 1 /\ action.sep = "-" /\ ACTION_PREFIXES(action.words[1]) # UNDEF

\* w.charAt(0).toUpperCase() + w.slice(1)
Capitalise(w) ==
  CASE w = "customer" -> "Customer"
    [] w = "customers" -> "Customers"
    [] w = "company" -> "Company"
    [] w = "sales" -> "Sales"
    [] w = "invoice" -> "Invoice"
    [] w = "add" -> "Add"
    [] w = "list" -> "List"
    [] OTHER -> w

kebabToTitle(kebab) == [i \in 1..Len(kebab.words) |-> Capitalise(kebab.words[i])]

\* The title as its words; trim() drops the empty label of get- and list-.
deriveTitle(action) ==
  IF HasPrefix(action)
  THEN (IF ACTION_PREFIXES(action.words[1]) = "" THEN <<>> ELSE <<ACTION_PREFIXES(action.words[1])>>)
       \o kebabToTitle(SlicePrefix(action))
  ELSE kebabToTitle(action)

deriveSubmitLabel(action) ==
  LET first == IF action.sep = "-" /\ Len(action.words) > 1 THEN action.words[1] ELSE ""
  IN CASE first \in {"add", "create"} -> <<"Create">>
       [] first = "update" -> <<"Update">>
       [] first = "submit" -> <<"Submit">>
       [] first = "cancel" -> <<"Cancel">>
       [] first = "delete" -> <<"Delete">>
       [] first = "confirm" -> <<"Confirm">>
       [] first = "complete" -> <<"Complete">>
       [] first = "approve" -> <<"Approve">>
       [] first = "reject" -> <<"Reject">>
       [] first = "check" -> <<"Check">>
       [] first = "generate" -> <<"Generate">>
       [] first = "compute" -> <<"Compute">>
       [] first \in {"seed", "setup"} -> <<"Run", "Setup">>
       [] OTHER -> <<"Execute">>

deriveEntity(action) ==
  IF HasPrefix(action) THEN HyphensToUnderscores(SlicePrefix(action))
  ELSE HyphensToUnderscores(action)

PARAM_TYPE_TO_FIELD_TYPE(type) ==
  CASE type \in {"text", "number", "currency", "date", "textarea", "select", "entity-lookup",
                 "boolean"} -> type
    [] type \in {"time", "email", "phone"} -> "text"
    [] OTHER -> UNDEF

AUTO_HIDDEN_FIELDS == {Kebab(<<"company", "id">>)}

\* A ParamField of the manifest's parameter metadata
ParamField(name, label, type, required) ==
  [name |-> name, label |-> label, type |-> type, required |-> required, default |-> UNDEF,
   options |-> <<>>, lookup_action |-> NoName, lookup_skill |-> UNDEF]

paramToField(param, sk) ==
  LET fieldType == IF PARAM_TYPE_TO_FIELD_TYPE(param.type) # UNDEF
                   THEN PARAM_TYPE_TO_FIELD_TYPE(param.type) ELSE "text"
      isLookup == fieldType = "entity-lookup" /\ param.lookup_action # NoName
  IN [key |-> param.name,
      label |-> param.label,
      type |-> fieldType,
      required |-> param.required,
      default |-> param.default,
      options |-> param.options,
      entity_action |-> IF isLookup THEN param.lookup_action ELSE NoName,
      entity_skill |-> IF isLookup /\ param.lookup_skill # UNDEF /\ param.lookup_skill # sk
                       THEN param.lookup_skill ELSE UNDEF]

ParamFieldsOf(params, sk) == [i \in 1..Len(params) |-> paramToField(params[i], sk)]

\* A ChildTableField of the child-table schema, as a row field
ChildRowField(f) ==
  [key |-> f.key, label |-> f.label, type |-> IF f.type = "" THEN "text" ELSE f.type,
   required |-> f.required, default |-> f.default, options |-> <<>>,
   entity_action |-> f.entity_action, entity_skill |-> f.entity_skill]

\* childTableSchema?.child_tables?.[entity]: the ChildTableInfo list, empty
\* when there is none
childTablesOf(childTableSchema, entity) ==
  LET found == SelectSeq(childTableSchema.child_tables, LAMBDA e : e.parent = entity)
  IN IF found = <<>> THEN <<>> ELSE found[1].tables

\* The section one JSON parameter contributes.
JsonSection(jsonParam, childTables) ==
  LET matched == SelectSeq(childTables, LAMBDA ct : ct.param_name = jsonParam.name)
  IN IF matched # <<>> /\ Len(matched[1].fields) > 0
     THEN RepeatableSection(<<jsonParam.label>>, jsonParam.name,
                            [i \in 1..Len(matched[1].fields) |-> ChildRowField(matched[1].fields[i])])
     ELSE FieldsSection(<<jsonParam.label>>, 1,
                        << [key |-> jsonParam.name, label |-> jsonParam.label, type |-> "textarea",
                            required |-> jsonParam.required, default |-> UNDEF,
                            options |-> <<>>, entity_action |-> NoName, entity_skill |-> UNDEF] >>)

\* The hidden required parameters pushed at the end of the section instead.
UnshiftAll_push(fs, hidden) == fs \o hidden

\* sections[0].fields.unshift(...) for each hidden required parameter in turn
RECURSIVE UnshiftAll(_, _)
UnshiftAll(fs, hidden) ==
  IF hidden = <<>> THEN fs
  ELSE UnshiftAll(<<Head(hidden)>> \o fs, Tail(hidden))

generateAutoFormSpec(sk, action, schema, childTableSchema) ==
  LET formActions == {"create", "update", "setup", "action", "status-transition", "utility"}
      allParams == schema.required \o schema.optional
      regularRequired == SelectSeq(schema.required,
                                   LAMBDA p : p.type # "json" /\ p.name \notin AUTO_HIDDEN_FIELDS)
      regularOptional == SelectSeq(schema.optional,
                                   LAMBDA p : p.type # "json" /\ p.name \notin AUTO_HIDDEN_FIELDS)
      jsonFields == SelectSeq(allParams, LAMBDA p : p.type = "json")
      hiddenRequired == SelectSeq(schema.required, LAMBDA p : p.name \in AUTO_HIDDEN_FIELDS)
      childTables == childTablesOf(childTableSchema, deriveEntity(action))
      sections ==
        (IF Len(regularRequired) > 0
         THEN << FieldsSection(IF schema.entity_group # "" THEN <<schema.entity_group>>
                               ELSE deriveTitle(action),
                               IF Len(regularRequired) > 1 THEN 2 ELSE 1,
                               ParamFieldsOf(regularRequired, sk)) >>
         ELSE <<>>)
        \o (IF Len(regularOptional) > 0
            THEN << FieldsSection(<<"Additional Details">>,
                                  IF Len(regularOptional) > 1 THEN 2 ELSE 1,
                                  ParamFieldsOf(regularOptional, sk)) >>
            ELSE <<>>)
        \o [i \in 1..Len(jsonFields) |-> JsonSection(jsonFields[i], childTables)]
  IN IF schema.action_type \notin formActions THEN NoSpec
     ELSE IF Len(allParams) = 0 THEN NoSpec
     ELSE [title |-> deriveTitle(action),
           submit_action |-> action,
           submit_label |-> deriveSubmitLabel(action),
           sections |->
             IF Len(hiddenRequired) > 0 /\ Len(sections) > 0
             THEN <<[sections[1] EXCEPT !.fields = UnshiftAll(@, ParamFieldsOf(hiddenRequired, sk))]>>
                  \o Tail(sections)
             ELSE sections]

(***************************************************************************)
(* The backend's descriptors: UI.yaml, SKILL.md parameter metadata and     *)
(* child-table schema of the skills                                        *)
(***************************************************************************)

UIVariants == {"form", "formview", "unmapped", "table", "noentity", "nofields", "nochild",
               "otherchild", "none"}
ParamVariants == {"full", "example", "hiddenonly", "nolookup", "noparams", "query", "absent",
                  "none"}
ChildVariants == {"match", "nomatch", "none"}

\* What the backend holds for erpclaw-selling.
Worlds == [ui : UIVariants, params : ParamVariants, child : ChildVariants]

\* The backends under which navigation between skills is explored.
PageWorlds == {[ui |-> u, params |-> "full", child |-> "match"] : u \in {"form", "unmapped"}}

NoConfig ==
  [skill |-> "", skill_version |-> "", entities |-> <<>>, child_entities |-> <<>>,
   has_child_entities |-> FALSE, action_map |-> <<>>]

NoParamSchema == [skill |-> "", actions |-> <<>>]

NoChildTableSchema == [skill |-> "", child_tables |-> <<>>]

CustomerFields(inForm) ==
  << [FieldDef(Name("", <<"email">>), "text", "Email", FALSE)
        EXCEPT !.form_group = "basic", !.form_order = 2, !.in_form_view = inForm],
     [FieldDef(Snake(<<"customer", "name">>), "text", "Customer Name", TRUE)
        EXCEPT !.form_group = "basic", !.form_order = 1, !.in_form_view = inForm],
     [FieldDef(Snake(<<"company", "id">>), "link", "Company", TRUE)
        EXCEPT !.hidden = TRUE, !.link_entity = Name("", <<"company">>), !.in_form_view = inForm],
     [FieldDef(Name("", <<"territory">>), "text", "Territory", FALSE)
        EXCEPT !.in_form_view = inForm],
     [FieldDef(Snake(<<"created", "at">>), "datetime", "Created", FALSE)
        EXCEPT !.read_only = TRUE, !.in_form_view = inForm] >>

FormGroup(key, label, order, columns, type) ==
  [key |-> key, label |-> label, order |-> order, columns |-> columns, type |-> type]

CustomerEntity(variant) ==
  [key |-> "customer", label |-> "Customer", label_plural |-> "Customers", table |-> "customer",
   fields |-> CustomerFields(variant # "nofields"),
   form_groups |-> << FormGroup("basic", "Basic Info", 1, 2, UNDEF) >>,
   has_form_view |-> variant = "formview",
   form_view |-> IF variant = "formview"
                 THEN << [label |-> "Customer", columns |-> 0, type |-> UNDEF, child_entity |-> "",
                          fields |-> << Snake(<<"customer", "name">>), Name("", <<"phone">>),
                                        Name("", <<"email">>), Snake(<<"company", "id">>) >>] >>
                 ELSE <<>>]

SalesInvoiceEntity ==
  [key |-> "sales_invoice", label |-> "Sales Invoice", label_plural |-> "Sales Invoices",
   table |-> "sales_invoice",
   fields |-> << [FieldDef(Snake(<<"posting", "date">>), "date", "Date", FALSE)
                    EXCEPT !.form_group = "main", !.form_order = 2, !.default = "today"],
                 [FieldDef(Snake(<<"customer", "id">>), "link", "Customer", TRUE)
                    EXCEPT !.form_group = "main", !.form_order = 1,
                           !.link_entity = Name("", <<"customer">>)],
                 [FieldDef(Name("", <<"items">>), "json", "Items", TRUE)
                    EXCEPT !.form_group = "lines"] >>,
   form_groups |-> << FormGroup("lines", "Items", 2, 0, "child_table"),
                      FormGroup("main", "Invoice", 1, 0, UNDEF) >>,
   has_form_view |-> FALSE,
   form_view |-> <<>>]

SalesInvoiceItem(variant) ==
  [key |-> "sales_invoice_item", parent_entity |-> "sales_invoice",
   param_name |-> IF variant = "otherchild" THEN Name("", <<"taxes">>) ELSE NoName,
   fields |-> << [FieldDef(Snake(<<"item", "id">>), "link", "Item", TRUE)
                    EXCEPT !.link_entity = Name("", <<"item">>)],
                 FieldDef(Name("", <<"qty">>), "quantity", "Qty", TRUE),
                 FieldDef(Name("", <<"rate">>), "currency", "Rate", FALSE),
                 [FieldDef(Name("", <<"amount">>), "currency", "Amount", FALSE)
                    EXCEPT !.read_only = TRUE] >>]

MapEntry(action, component, entity, mode) ==
  [action |-> action, component |-> component, entity |-> entity, mode |-> mode]

\* The UI.yaml of a skill, as /api/ui-config/<skill> serves it.
UIConfigOf(s, w) ==
  IF s # SELLING \/ w.ui = "none" THEN NoConfig
  ELSE [skill |-> s, skill_version |-> "1.0",
        entities |-> << CustomerEntity(w.ui), SalesInvoiceEntity >>,
        child_entities |-> IF w.ui = "nochild" THEN <<>> ELSE << SalesInvoiceItem(w.ui) >>,
        has_child_entities |-> w.ui # "nochild",
        action_map |->
          (CASE w.ui = "unmapped" -> <<>>
             [] w.ui = "table" -> << MapEntry(AddCustomer, "DataTable", "customer", "") >>
             [] w.ui = "noentity" -> << MapEntry(AddCustomer, "FormView", "client", "create") >>
             [] OTHER -> << MapEntry(AddCustomer, "FormView", "customer", "create") >>)
          \o << MapEntry(AddSalesInvoice, "FormView", "sales_invoice", "create"),
                MapEntry(ListCustomers, "DataTable", "customer", "") >>]

ActionParams(action, type, required, optional) ==
  [action |-> action, action_type |-> type, entity_group |-> "",
   required |-> required, optional |-> optional]

\* The parameter metadata of a skill, as /api/v1/schema/params/<skill>
\* serves it.
ParamSchemaOf(s, w) ==
  IF s = SETUP
  THEN [skill |-> s,
        actions |-> << ActionParams(AddCompany, "create",
                                    << ParamField(Name("", <<"name">>), "Name", "text", TRUE) >>,
                                    << ParamField(Name("", <<"abbr">>), "Abbreviation", "text", FALSE) >>) >>]
  ELSE IF w.params = "none" THEN NoParamSchema
  ELSE [skill |-> s,
        actions |->
          (CASE w.params = "absent" -> <<>>
             [] w.params = "noparams" -> << ActionParams(AddCustomer, "create", <<>>, <<>>) >>
             [] w.params = "hiddenonly" ->
                << ActionParams(AddCustomer, "create",
                     << ParamField(Kebab(<<"company", "id">>), "Company", "text", TRUE) >>, <<>>) >>
             [] w.params = "example" ->
                << ActionParams(AddCustomer, "create",
                     << ParamField(Snake(<<"customer", "name">>), "Customer Name", "text", TRUE) >>,
                     << [ParamField(Snake(<<"customer", "type">>), "Customer Type", "select", FALSE)
                           EXCEPT !.options = <<"Company", "Individual">>] >>) >>
             [] OTHER ->
                << ActionParams(AddCustomer, IF w.params = "query" THEN "query" ELSE "create",
                     << ParamField(Kebab(<<"company", "id">>), "Company", "text", TRUE),
                        ParamField(Kebab(<<"customer", "name">>), "Customer Name", "text", TRUE) >>,
                     << ParamField(Name("", <<"email">>), "Email", "email", FALSE),
                        ParamField(Name("", <<"territory">>), "Territory", "text", FALSE) >>) >>)
          \o << ActionParams(AddSalesInvoice, "create",
                  << [ParamField(Kebab(<<"customer", "id">>), "Customer", "entity-lookup", TRUE)
                        EXCEPT !.lookup_action = ListCustomers, !.lookup_skill = SELLING],
                     ParamField(Name("", <<"items">>), "Items", "json", TRUE) >>,
                  << [ParamField(Kebab(<<"posting", "date">>), "Date", "date", FALSE)
                        EXCEPT !.default = "today"] >>
                  \o (IF w.params = "nolookup"
                      THEN << ParamField(Kebab(<<"warehouse", "id">>), "Warehouse",
                                         "entity-lookup", FALSE) >>
                      ELSE <<>>)),
                ActionParams(ListCustomers, "query", <<>>,
                  << ParamField(Name("", <<"limit">>), "Limit", "number", FALSE) >>) >>]

ChildTableField(key, label, type, required) ==
  [key |-> key, label |-> label, type |-> type, required |-> required, default |-> UNDEF,
   entity_action |-> NoName, entity_skill |-> UNDEF]

\* The child-table schema of a skill, as /api/v1/schema/child-tables/<skill>
\* serves it.
ChildTableSchemaOf(s, w) ==
  IF s # SELLING \/ w.child = "none" THEN NoChildTableSchema
  ELSE [skill |-> s,
        child_tables |->
          << [parent |-> Snake(<<"sales", "invoice">>),
              tables |-> << [table |-> "sales_invoice_item",
                             param_name |-> IF w.child = "match" THEN Name("", <<"items">>)
                                            ELSE Name("", <<"lines">>),
                             fields |-> << [ChildTableField(Snake(<<"item", "id">>), "Item",
                                                            "entity-lookup", TRUE)
                                              EXCEPT !.entity_action = Kebab(<<"list", "items">>)],
                                           ChildTableField(Name("", <<"qty">>), "Qty", "number", TRUE),
                                           ChildTableField(Name("", <<"rate">>), "Rate", "currency",
                                                           FALSE) >>] >>] >>]

(***************************************************************************)
(* The skill page and its schema hooks: useUIConfig, useParamSchema,       *)
(* useChildTableSchema and resolveFormSpec                                 *)
(***************************************************************************)

MaxNav == 1            \* renders of the page for a new skill after the first

Hooks == {"ui", "params", "child"}

\* null for the value a hook holds
NullOf(h) ==
  CASE h = "ui" -> NoConfig
    [] h = "params" -> NoParamSchema
    [] h = "child" -> NoChildTableSchema

\* What the backend answers a hook's request for skill s.
ServedBy(h, s) ==
  CASE h = "ui" -> (IF s \in uiRemoved THEN NoConfig ELSE UIConfigOf(s, world))
    [] h = "params" -> ParamSchemaOf(s, world)
    [] h = "child" -> ChildTableSchemaOf(s, world)

uiConfig == hookValue["ui"]
uiConfigLoading == hookLoading["ui"]
paramSchema == hookValue["params"]
paramLoading == hookLoading["params"]
childTableSchema == hookValue["child"]

NoCached(h) == [data |-> NullOf(h), fresh |-> FALSE]

\* No form is open.
NoResolved == [spec |-> NoSpec, held |-> <<>>]

PageIdle ==
  /\ world = [ui |-> "none", params |-> "none", child |-> "none"]
  /\ uiRemoved = {}
  /\ pageMounted = FALSE
  /\ skill = ""
  /\ hookValue = [h \in Hooks |-> NullOf(h)]
  /\ hookLoading = [h \in Hooks |-> TRUE]
  /\ hookCache = [h \in Hooks |-> [s \in PageSkills |-> NoCached(h)]]
  /\ inflight = [h \in Hooks |-> {}]
  /\ activeForm = NoName
  /\ navs = 0
  /\ formResolved = NoResolved

\* The page as first rendered for skill s with empty module caches: the
\* useState initial values, the effects run, a request of each hook sent.
FirstRender(s) ==
  /\ pageMounted = TRUE
  /\ skill = s
  /\ hookValue = [h \in Hooks |-> NullOf(h)]
  /\ hookLoading = [h \in Hooks |-> TRUE]
  /\ hookCache = [h \in Hooks |-> [t \in PageSkills |-> NoCached(h)]]
  /\ inflight = [h \in Hooks |-> {<<s, TRUE>>}]
  /\ activeForm = NoName
  /\ navs = 0
  /\ formResolved = NoResolved

InitPage == world \in PageWorlds /\ uiRemoved = {} /\ \E s \in PageSkills : FirstRender(s)

\* The page first rendered under any backend, before or after the backend
\* has dropped a UI.yaml it had.
InitResolve ==
  /\ world \in Worlds
  /\ uiRemoved \in SUBSET {s \in PageSkills : UIConfigOf(s, world) # NoConfig}
  /\ \E s \in PageSkills : FirstRender(s)

\* cached && Date.now() - cached.fetchedAt < CACHE_TTL
CacheFresh(h, s) == hookCache[h][s].data # NullOf(h) /\ hookCache[h][s].fresh

\* The effect of a hook for skill s: setLoading(true), then the cached value
\* at once or a request whose answer the callback will store.
EffectValue(h, s, old) == IF CacheFresh(h, s) THEN hookCache[h][s].data ELSE old
EffectLoading(h, s) == ~CacheFresh(h, s)
EffectInflight(h, s, old) == IF CacheFresh(h, s) THEN old ELSE old \cup {<<s, TRUE>>}

\* The page is rendered for skill s: useState initial values, then the effects.
PageMount(s) ==
  /\ ~pageMounted
  /\ navs < MaxNav
  /\ pageMounted' = TRUE
  /\ skill' = s
  /\ hookValue' = [h \in Hooks |-> EffectValue(h, s, NullOf(h))]
  /\ hookLoading' = [h \in Hooks |-> EffectLoading(h, s)]
  /\ inflight' = [h \in Hooks |-> EffectInflight(h, s, inflight[h])]
  /\ activeForm' = NoName
  /\ formResolved' = NoResolved
  /\ navs' = navs + 1
  /\ UNCHANGED <<world, uiRemoved, hookCache>>

\* The page is rendered again with another skill: the [skill] effects re-run,
\* the hooks keep the value they hold.
SwitchSkill(s) ==
  /\ pageMounted
  /\ s # skill
  /\ navs < MaxNav
  /\ skill' = s
  /\ hookValue' = [h \in Hooks |-> EffectValue(h, s, hookValue[h])]
  /\ hookLoading' = [h \in Hooks |-> EffectLoading(h, s)]
  /\ inflight' = [h \in Hooks |-> EffectInflight(h, s, inflight[h])]
  /\ activeForm' = NoName
  /\ formResolved' = NoResolved
  /\ navs' = navs + 1
  /\ UNCHANGED <<world, uiRemoved, pageMounted, hookCache>>

\* The page goes away; the requests stay in flight, their callbacks now set
\* the state of a component that is gone.
PageUnmount ==
  /\ pageMounted
  /\ pageMounted' = FALSE
  /\ skill' = ""
  /\ hookValue' = [h \in Hooks |-> NullOf(h)]
  /\ hookLoading' = [h \in Hooks |-> TRUE]
  /\ inflight' = [h \in Hooks |-> {<<r[1], FALSE>> : r \in inflight[h]}]
  /\ activeForm' = NoName
  /\ formResolved' = NoResolved
  /\ UNCHANGED <<world, uiRemoved, hookCache, navs>>

\* A request of hook h for skill s is answered: the fetcher caches a served
\* value and returns it, or returns null; the callback stores what it is
\* given and clears loading.
FetchReturn(h, s, live, ok) ==
  /\ <<s, live>> \in inflight[h]
  /\ LET result == IF ok THEN ServedBy(h, s) ELSE NullOf(h)
     IN /\ hookCache' = IF result # NullOf(h)
                        THEN [hookCache EXCEPT ![h][s] = [data |-> result, fresh |-> TRUE]]
                        ELSE hookCache
        /\ hookValue' = IF live THEN [hookValue EXCEPT ![h] = result] ELSE hookValue
        /\ hookLoading' = IF live THEN [hookLoading EXCEPT ![h] = FALSE] ELSE hookLoading
  /\ inflight' = [inflight EXCEPT ![h] = @ \ {<<s, live>>}]
  /\ UNCHANGED <<world, uiRemoved, pageMounted, skill, activeForm, navs, formResolved>>

\* CACHE_TTL passes for an entry.
CacheExpire(h, s) ==
  /\ CacheFresh(h, s)
  /\ hookCache' = [hookCache EXCEPT ![h][s].fresh = FALSE]
  /\ UNCHANGED <<world, uiRemoved, pageMounted, skill, hookValue, hookLoading, inflight,
                 activeForm, navs, formResolved>>

invalidateUICache(s) ==
  /\ hookCache["ui"][s] # NoCached("ui")
  /\ hookCache' = [hookCache EXCEPT !["ui"][s] = NoCached("ui")]
  /\ UNCHANGED <<world, uiRemoved, pageMounted, skill, hookValue, hookLoading, inflight,
                 activeForm, navs, formResolved>>

\* The skill's UI.yaml is removed from the backend.
RemoveDescriptor(s) ==
  /\ s \notin uiRemoved
  /\ UIConfigOf(s, world) # NoConfig
  /\ uiRemoved' = uiRemoved \cup {s}
  /\ UNCHANGED <<world, pageMounted, skill, hookValue, hookLoading, hookCache, inflight,
                 activeForm, navs, formResolved>>

\* paramSchema?.actions?.[action]: a one-element sequence, or empty.
ManifestEntry(schema, action) == SelectSeq(schema.actions, LAMBDA e : e.action = action)

\* Mutant: the manifest tier is asked first.
\* resolveFormSpec takes the manifest branch for the action.
FromManifestTier(action) ==
  /\ ~(uiConfig # NoConfig /\ generateFormSpec(uiConfig, action) # NoSpec)
  /\ ~uiConfigLoading
  /\ ManifestEntry(paramSchema, action) # <<>>

resolveFormSpec_manifestFirst(action) ==
  IF ~uiConfigLoading /\ ManifestEntry(paramSchema, action) # <<>>
  THEN generateAutoFormSpec(skill, action, ManifestEntry(paramSchema, action)[1], childTableSchema)
  ELSE IF uiConfig # NoConfig THEN generateFormSpec(uiConfig, action)
  ELSE NoSpec

resolveFormSpec(action) ==
  IF uiConfig # NoConfig /\ generateFormSpec(uiConfig, action) # NoSpec
  THEN generateFormSpec(uiConfig, action)
  ELSE IF uiConfigLoading THEN NoSpec
  ELSE IF ManifestEntry(paramSchema, action) # <<>>
  THEN generateAutoFormSpec(skill, action, ManifestEntry(paramSchema, action)[1], childTableSchema)
  ELSE NoSpec

\* What the hooks hold once resolveFormSpec has built a spec, were the
\* manifest generator's unshift to land in the held schema's own required
\* list instead of the section's new array.
heldAfterResolve_sharedArray(action) ==
  IF ~FromManifestTier(action) THEN hookValue
  ELSE LET held == paramSchema.actions
           unshifted(e) ==
             [e EXCEPT !.required =
                SelectSeq(e.required, LAMBDA q : q.name \in AUTO_HIDDEN_FIELDS) \o e.required]
       IN [hookValue EXCEPT
             !["params"].actions =
                [i \in 1..Len(held) |->
                   IF held[i].action = action THEN unshifted(held[i]) ELSE held[i]]]

\* What the hooks hold once resolveFormSpec has built a spec: the generators
\* filter, map and spread their inputs into new arrays and objects, and their
\* in-place sort and unshift act on those, so the held values are as before.
heldAfterResolve(action) == hookValue

\* A form button of the page is pressed: the form opens if the action has a
\* spec, and the render that follows resolves the spec of the open form again.
OpenForm(action) ==
  /\ pageMounted
  /\ activeForm = NoName
  /\ resolveFormSpec(action) # NoSpec
  /\ activeForm' = action
  /\ hookValue' = heldAfterResolve(action)
  /\ formResolved' = [spec |-> resolveFormSpec(action),
                      held |-> <<heldAfterResolve(action), hookLoading>>]
  /\ UNCHANGED <<world, uiRemoved, pageMounted, skill, hookLoading, hookCache,
                 inflight, navs>>

\* The form is cancelled or has succeeded, or the page renders it with no spec.
CloseForm ==
  /\ activeForm # NoName
  /\ activeForm' = NoName
  /\ formResolved' = NoResolved
  /\ UNCHANGED <<world, uiRemoved, pageMounted, skill, hookValue, hookLoading, hookCache,
                 inflight, navs>>

\* The page as the user moves between skills while every request is answered.
NextPage ==
  \/ \E s \in PageSkills : PageMount(s) /\ UNCHANGED <<evVars, inVars, cardVars, formVars, msgVars, fnVars, hsVars, chatVars>>
  \/ \E s \in PageSkills : SwitchSkill(s) /\ UNCHANGED <<evVars, inVars, cardVars, formVars, msgVars, fnVars, hsVars, chatVars>>
  \/ PageUnmount /\ UNCHANGED <<evVars, inVars, cardVars, formVars, msgVars, fnVars, hsVars, chatVars>>
  \/ \E h \in Hooks, s \in PageSkills, live \in BOOLEAN :
       FetchReturn(h, s, live, TRUE) /\ UNCHANGED <<evVars, inVars, cardVars, formVars, msgVars, fnVars, hsVars, chatVars>>
  \/ \E h \in Hooks, s \in PageSkills : CacheExpire(h, s) /\ UNCHANGED <<evVars, inVars, cardVars, formVars, msgVars, fnVars, hsVars, chatVars>>
  \/ \E s \in PageSkills : invalidateUICache(s) /\ UNCHANGED <<evVars, inVars, cardVars, formVars, msgVars, fnVars, hsVars, chatVars>>

\* The page of one skill while its requests are answered and its forms are opened.
NextResolve ==
  \/ \E h \in Hooks, s \in PageSkills, live \in BOOLEAN, ok \in BOOLEAN :
       FetchReturn(h, s, live, ok) /\ UNCHANGED <<evVars, inVars, cardVars, formVars, msgVars, fnVars, hsVars, chatVars>>
  \/ \E s \in PageSkills : RemoveDescriptor(s) /\ UNCHANGED <<evVars, inVars, cardVars, formVars, msgVars, fnVars, hsVars, chatVars>>
  \/ \E a \in Actions : OpenForm(a) /\ UNCHANGED <<evVars, inVars, cardVars, formVars, msgVars, fnVars, hsVars, chatVars>>
  \/ CloseForm /\ UNCHANGED <<evVars, inVars, cardVars, formVars, msgVars, fnVars, hsVars, chatVars>>

(***************************************************************************)
(* Response introspection: column inference and smart column selection     *)
(***************************************************************************)

\* JSON values of a row. A string is the sequence of its characters.
Num(n) == [type |-> "number", num |-> n, chars |-> <<>>, bool |-> FALSE]
Str(cs) == [type |-> "string", num |-> 0, chars |-> cs, bool |-> FALSE]
Bool(b) == [type |-> "boolean", num |-> 0, chars |-> <<>>, bool |-> b]
JsonNull == [type |-> "null", num |-> 0, chars |-> <<>>, bool |-> FALSE]

Digits == {"0", "1", "2", "3", "4", "5", "6", "7", "8", "9"}
HexDigits == Digits \cup {"a", "b", "c", "d", "e", "f", "A", "B", "C", "D", "E", "F"}

\* /^[0-9a-f]{8}-[0-9a-f]{4}-[0-9a-f]{4}-[0-9a-f]{4}-[0-9a-f]{12}$/i
UUID_RE(cs) ==
  /\ Len(cs) = 36
  /\ \A i \in 1..36 : IF i \in {9, 14, 19, 24} THEN cs[i] = "-" ELSE cs[i] \in HexDigits

\* \d{4}-\d{2}-\d{2} at the start of the string
DatePrefix(cs) ==
  /\ Len(cs) >= 10
  /\ \A i \in 1..10 : IF i \in {5, 8} THEN cs[i] = "-" ELSE cs[i] \in Digits

\* /^\d{4}-\d{2}-\d{2}$/
ISO_DATE_RE(cs) == Len(cs) = 10 /\ DatePrefix(cs)

\* /^\d{4}-\d{2}-\d{2}[T ]\d{2}:\d{2}/
ISO_DATETIME_RE(cs) ==
  /\ Len(cs) >= 16
  /\ DatePrefix(cs)
  /\ cs[11] \in {"T", " "}
  /\ cs[12] \in Digits /\ cs[13] \in Digits
  /\ cs[14] = ":"
  /\ cs[15] \in Digits /\ cs[16] \in Digits

\* /^-?\d+\.\d{2}$/
CURRENCY_RE(cs) ==
  LET body == IF cs # <<>> /\ Head(cs) = "-" THEN Tail(cs) ELSE cs
      n == Len(body)
  IN /\ n >= 4
     /\ body[n - 2] = "."
     /\ body[n - 1] \in Digits /\ body[n] \in Digits
     /\ \A i \in 1..(n - 3) : body[i] \in Digits

HIDDEN_COLUMNS ==
  {Snake(<<"id">>), Snake(<<"created", "at">>), Snake(<<"updated", "at">>),
   Snake(<<"created", "by">>), Snake(<<"updated", "by">>), Snake(<<"modified", "at">>),
   Snake(<<"modified", "by">>), Snake(<<"company", "id">>), Snake(<<"docstatus">>)}

STATUS_COLUMNS == {Snake(<<"status">>), Snake(<<"docstatus">>), Snake(<<"state">>), Snake(<<"stage">>)}

BADGE_COLUMNS ==
  {Snake(<<"status">>), Snake(<<"state">>), Snake(<<"type">>), Snake(<<"resource", "type">>),
   Snake(<<"category">>), Snake(<<"purpose">>), Snake(<<"priority">>), Snake(<<"severity">>),
   Snake(<<"stage">>)}

\* key.startsWith(first + "_")
KeyStartsWith(key, first) == key.sep = "_" /\ key.words[1] = first

\* key.endsWith("_" + last)
KeyEndsWith(key, last) == key.sep = "_" /\ key.words[Len(key.words)] = last

inferColumnType(key, value) ==
  IF value.type = "number" THEN "number"
  ELSE IF value.type = "boolean" THEN "boolean"
  ELSE IF value.type = "string" /\ UUID_RE(value.chars) THEN "id"
  ELSE IF value.type = "string" /\ ISO_DATETIME_RE(value.chars) THEN "datetime"
  ELSE IF value.type = "string" /\ ISO_DATE_RE(value.chars) THEN "date"
  ELSE IF value.type = "string" /\ CURRENCY_RE(value.chars) THEN "currency"
  ELSE IF /\ value.type = "string"
          /\ key \in BADGE_COLUMNS
          /\ Len(value.chars) < 30
          /\ " " \notin Range(value.chars)
       THEN "badge"
  ELSE IF /\ value.type = "number" /\ value.num \in {0, 1}
          /\ \/ KeyStartsWith(key, "is") \/ KeyStartsWith(key, "has")
             \/ KeyStartsWith(key, "enable")
       THEN "boolean"
  ELSE "text"

shouldHideColumn(key) == key \in HIDDEN_COLUMNS \/ KeyEndsWith(key, "id")

\* scored.slice(0, 7)
MaxListColumns == 7

\* An IntrospectedColumn (the label, which nothing reads back, is left out).
Column(key, type, hidden) == [key |-> key, type |-> type, hidden |-> hidden]

\* The score selectSmartColumns gives a column.
ScoreOf(col) ==
  (IF col.key \in {Snake(<<"name">>), Snake(<<"title">>)} THEN 100 ELSE 0)
  + (IF col.key \in STATUS_COLUMNS THEN 90 ELSE 0)
  + (IF col.type = "badge" THEN 70 ELSE 0)
  + (IF col.type = "currency" THEN 60 ELSE 0)
  + (IF col.type = "number" THEN 50 ELSE 0)
  + (IF col.type = "date" THEN 40 ELSE 0)
  + (IF col.type = "boolean" THEN 30 ELSE 0)
  + (IF col.type = "text" THEN 20 ELSE 0)

\* scored.sort((a, b) => b.score - a.score), which is stable: x goes after
\* every element whose score is not lower.
RECURSIVE InsertByScore(_, _)
InsertByScore(s, x) ==
  IF s = <<>> THEN <<x>>
  ELSE IF Head(s).score >= x.score THEN <<Head(s)>> \o InsertByScore(Tail(s), x)
  ELSE <<x>> \o s

RECURSIVE SortByScore(_)
SortByScore(s) ==
  IF s = <<>> THEN <<>>
  ELSE InsertByScore(SortByScore(SubSeq(s, 1, Len(s) - 1)), s[Len(s)])

\* Mutant: every column is a candidate, hidden or not.
selectSmartColumns_noFilter(columns) ==
  LET scored == [i \in 1..Len(columns) |-> [key |-> columns[i].key, score |-> ScoreOf(columns[i])]]
      sorted == SortByScore(scored)
      top == SubSeq(sorted, 1, Min(Len(sorted), MaxListColumns))
  IN [i \in 1..Len(top) |-> top[i].key]

selectSmartColumns(columns) ==
  LET visible == SelectSeq(columns, LAMBDA c : ~c.hidden)
      scored == [i \in 1..Len(visible) |-> [key |-> visible[i].key, score |-> ScoreOf(visible[i])]]
      sorted == SortByScore(scored)
      top == SubSeq(sorted, 1, Min(Len(sorted), MaxListColumns))
  IN IF visible = <<>> THEN <<>> ELSE [i \in 1..Len(top) |-> top[i].key]

\* null for an IntrospectedSchema
NullSchema ==
  [entityKey |-> "", columns |-> <<>>, listColumns |-> <<>>, idColumn |-> NoName,
   statusColumn |-> NoName]

\* The column the loop over Object.entries(firstRow) pushes for one entry.
ColumnOf(entry) ==
  Column(entry.key, inferColumnType(entry.key, entry.value),
         shouldHideColumn(entry.key) \/ inferColumnType(entry.key, entry.value) = "id")

\* statusColumn: the last status-like key of the row, undefined without one.
RECURSIVE StatusColumnOf(_)
StatusColumnOf(row) ==
  IF row = <<>> THEN NoName
  ELSE IF row[Len(row)].key \in STATUS_COLUMNS THEN row[Len(row)].key
  ELSE StatusColumnOf(SubSeq(row, 1, Len(row) - 1))

\* The schema _doIntrospect builds from the first row of the array.
SchemaOf(arrayKey, firstRow) ==
  LET columns == [i \in 1..Len(firstRow) |-> ColumnOf(firstRow[i])]
  IN [entityKey |-> arrayKey,
      columns |-> columns,
      listColumns |-> selectSmartColumns(columns),
      idColumn |-> Snake(<<"id">>),
      statusColumn |-> StatusColumnOf(firstRow)]

\* One entry of Object.entries(firstRow)
Entry(key, value) == [key |-> key, value |-> value]

\* The columns of a sample record, in the order the backend sends them.
SampleRow ==
  << Entry(Snake(<<"id">>), Str(<<"e", "4", "a", "1", "c", "3", "d", "2", "-", "0", "0", "0", "0", "-", "4", "b", "6", "f", "-", "9", "a", "b", "c", "-", "1", "2", "3", "4", "5", "6", "7", "8", "9", "0", "a", "b">>)),
     Entry(Snake(<<"name">>), Str(<<"A", "c", "m", "e", " ", "C", "o", "r", "p">>)),
     Entry(Snake(<<"status">>), Str(<<"a", "c", "t", "i", "v", "e">>)),
     Entry(Snake(<<"amount">>), Str(<<"1", "2", "5", ".", "5", "0">>)),
     Entry(Snake(<<"qty">>), Num(3)),
     Entry(Snake(<<"posting", "date">>), Str(<<"2", "0", "2", "4", "-", "0", "3", "-", "0", "1">>)),
     Entry(Snake(<<"is", "active">>), Num(1)),
     Entry(Snake(<<"enabled">>), Bool(TRUE)),
     Entry(Snake(<<"notes">>), Str(<<"h", "e", "l", "l", "o">>)),
     Entry(Snake(<<"customer", "id">>), Str(<<"C", "-", "1">>)),
     Entry(Snake(<<"due">>), Str(<<"2", "0", "2", "4", "-", "0", "3", "-", "0", "1", "T", "1", "0", ":", "0", "0">>)),
     Entry(Snake(<<"title">>), Str(<<"Q", "1">>)) >>

\* The same columns with values of other kinds.
OtherRow ==
  << Entry(Snake(<<"id">>), Num(7)),
     Entry(Snake(<<"name">>), Str(<<"1", "2", "5", ".", "5", "0">>)),
     Entry(Snake(<<"status">>), Str(<<"i", "n", " ", "p", "r", "o", "g", "r", "e", "s", "s">>)),
     Entry(Snake(<<"amount">>), Num(10)),
     Entry(Snake(<<"qty">>), Str(<<"3">>)),
     Entry(Snake(<<"posting", "date">>), Str(<<"2", "0", "2", "4", "-", "0", "3", "-", "0", "1", " ", "1", "0", ":", "0", "0">>)),
     Entry(Snake(<<"is", "active">>), Bool(TRUE)),
     Entry(Snake(<<"enabled">>), Num(1)),
     Entry(Snake(<<"notes">>), JsonNull),
     Entry(Snake(<<"customer", "id">>), Str(<<"e", "4", "a", "1", "c", "3", "d", "2", "-", "0", "0", "0", "0", "-", "4", "b", "6", "f", "-", "9", "a", "b", "c", "-", "1", "2", "3", "4", "5", "6", "7", "8", "9", "0", "a", "b">>)),
     Entry(Snake(<<"due">>), Str(<<"2", "0", "2", "4", "-", "0", "3", "-", "0", "2">>)),
     Entry(Snake(<<"title">>), Str(<<"-", "0", ".", "5">>)) >>

RECURSIVE Reverse(_)
Reverse(s) == IF s = <<>> THEN <<>> ELSE Append(Reverse(Tail(s)), Head(s))

\* The entries of s at the positions in S, in the order of s.
RECURSIVE Pick(_, _, _)
Pick(s, S, i) ==
  IF i > Len(s) THEN <<>>
  ELSE (IF i \in S THEN <<s[i]>> ELSE <<>>) \o Pick(s, S, i + 1)

\* First rows the list call may return: any of the columns, in either order.
Rows ==
  {Pick(p, S, 1) : p \in {SampleRow, Reverse(SampleRow), OtherRow}, S \in SUBSET (1..Len(SampleRow))}

\* What the backend answers the list call: the fetch rejects, a status that
\* is not ok, a body that is no JSON, a status field that is not "ok", no
\* array in the body, only an array under a skipped key, an empty array, an
\* array whose first element is null, or rows.
IntrospectFailures ==
  {"network-error", "http-error", "bad-json", "status-error", "no-array", "skipped-array",
   "empty-array", "null-row"}

IntrospectResponses ==
  {[kind |-> k, row |-> <<>>] : k \in IntrospectFailures}
    \cup {[kind |-> "rows", row |-> r] : r \in Rows}

\* What the backend answers a descriptor fetch and a parameter-schema fetch;
\* only the latter's body has a status field that is looked at.
FetchFailures(call) ==
  IF call = "ui-config" THEN {"network-error", "http-error", "bad-json"}
  ELSE {"network-error", "http-error", "bad-json", "status-error"}

FetchResponses(call) == {[kind |-> k, row |-> <<>>] : k \in FetchFailures(call) \cup {"ok"}}

Requests ==
  {[call |-> "introspect", response |-> r] : r \in IntrospectResponses}
    \cup UNION {{[call |-> c, response |-> r] : r \in FetchResponses(c)} :
                c \in {"ui-config", "param-schema"}}

NoRequest == [call |-> "none", response |-> [kind |-> "none", row |-> <<>>]]

\* How a promise settled, with the value it resolved to.
Settled(state, schema, config, params) ==
  [state |-> state, schema |-> schema, config |-> config, params |-> params]

Unsettled == Settled("unsettled", NullSchema, NoConfig, NoParamSchema)
Rejected == Settled("rejected", NullSchema, NoConfig, NoParamSchema)
ResolvedNull == Settled("resolved", NullSchema, NoConfig, NoParamSchema)

\* The try block of _doIntrospect: what it returns, or that it throws.
doIntrospectTry(response) ==
  CASE response.kind \in {"network-error", "bad-json", "null-row"} -> Rejected
    [] response.kind \in {"http-error", "status-error", "no-array", "skipped-array",
                          "empty-array"} -> ResolvedNull
    [] OTHER -> Settled("resolved", SchemaOf("items", response.row), NoConfig, NoParamSchema)

\* Mutant: _doIntrospect without its catch.
doIntrospect_noCatch(response) == doIntrospectTry(response)

\* _doIntrospect: the catch turns whatever the try block throws into null.
doIntrospect(response) ==
  IF doIntrospectTry(response).state = "rejected" THEN ResolvedNull
  ELSE doIntrospectTry(response)

\* The body of a successful descriptor and parameter-schema response.
SampleWorld == [ui |-> "form", params |-> "full", child |-> "match"]

\* The try block of fetchUIConfig, on a cache miss.
fetchUIConfigTry(response) ==
  CASE response.kind \in {"network-error", "bad-json"} -> Rejected
    [] response.kind = "http-error" -> ResolvedNull
    [] OTHER -> Settled("resolved", NullSchema, UIConfigOf(SELLING, SampleWorld), NoParamSchema)

\* Mutant: fetchUIConfig without its catch.
fetchUIConfig_noCatch(response) == fetchUIConfigTry(response)

fetchUIConfig(response) ==
  IF fetchUIConfigTry(response).state = "rejected" THEN ResolvedNull
  ELSE fetchUIConfigTry(response)

\* fetchParamSchema, on a cache miss
fetchParamSchema(response) ==
  CASE response.kind \in {"network-error", "bad-json", "http-error", "status-error"} -> ResolvedNull
    [] OTHER -> Settled("resolved", NullSchema, NoConfig, ParamSchemaOf(SELLING, SampleWorld))

FnIdle ==
  /\ request = NoRequest
  /\ promise = Unsettled

InitFn ==
  /\ request \in Requests
  /\ promise = Unsettled

\* introspectEntity on a cache miss with no request pending: it awaits
\* _doIntrospect and settles as that promise does.
IntrospectCall ==
  /\ request.call = "introspect"
  /\ promise = Unsettled
  /\ promise' = doIntrospect(request.response)
  /\ UNCHANGED request

UIConfigCall ==
  /\ request.call = "ui-config"
  /\ promise = Unsettled
  /\ promise' = fetchUIConfig(request.response)
  /\ UNCHANGED request

ParamSchemaCall ==
  /\ request.call = "param-schema"
  /\ promise = Unsettled
  /\ promise' = fetchParamSchema(request.response)
  /\ UNCHANGED request

NextFn ==
  \/ IntrospectCall /\ UNCHANGED <<evVars, inVars, cardVars, formVars, pageVars, msgVars, hsVars, chatVars>>
  \/ UIConfigCall /\ UNCHANGED <<evVars, inVars, cardVars, formVars, pageVars, msgVars, hsVars, chatVars>>
  \/ ParamSchemaCall /\ UNCHANGED <<evVars, inVars, cardVars, formVars, pageVars, msgVars, hsVars, chatVars>>

(***************************************************************************)
(* Specifications: one per component, the others idle                      *)
(***************************************************************************)

InitFormSpec == InitEvents /\ InitIntrospect /\ CardIdle /\ InitForm /\ PageIdle /\ MsgIdle /\ FnIdle /\ HsIdle /\ ChatIdle

SpecForm == InitFormSpec /\ [][NextForm]_vars

InitPageSpec == InitEvents /\ InitIntrospect /\ CardIdle /\ FormIdle /\ InitPage /\ MsgIdle /\ FnIdle /\ HsIdle /\ ChatIdle

SpecPage == InitPageSpec /\ [][NextPage]_vars

InitResolveSpec == InitEvents /\ InitIntrospect /\ CardIdle /\ FormIdle /\ InitResolve /\ MsgIdle /\ FnIdle /\ HsIdle /\ ChatIdle

SpecResolve == InitResolveSpec /\ [][NextResolve]_vars

InitCardSpec == InitEvents /\ InitIntrospect /\ InitCard /\ FormIdle /\ PageIdle /\ MsgIdle /\ FnIdle /\ HsIdle /\ ChatIdle

SpecCard == InitCardSpec /\ [][NextCard]_vars


InitIntrospectSpec == InitEvents /\ InitIntrospect /\ CardIdle /\ FormIdle /\ PageIdle /\ MsgIdle /\ FnIdle /\ HsIdle /\ ChatIdle

SpecIntrospect == InitIntrospectSpec /\ [][NextIntrospect]_vars

NextEvents ==
  \/ Mount /\ UNCHANGED <<inVars, cardVars, formVars, pageVars, msgVars, fnVars, hsVars, chatVars>>
  \/ Unmount /\ UNCHANGED <<inVars, cardVars, formVars, pageVars, msgVars, fnVars, hsVars, chatVars>>
  \/ \E e \in EsIds : OnOpen(e) /\ UNCHANGED <<inVars, cardVars, formVars, pageVars, msgVars, fnVars, hsVars, chatVars>>
  \/ \E e \in EsIds : OnError(e) /\ UNCHANGED <<inVars, cardVars, formVars, pageVars, msgVars, fnVars, hsVars, chatVars>>
  \/ TimerFire /\ UNCHANGED <<inVars, cardVars, formVars, pageVars, msgVars, fnVars, hsVars, chatVars>>
  \/ SetToken /\ UNCHANGED <<inVars, cardVars, formVars, pageVars, msgVars, fnVars, hsVars, chatVars>>
  \/ Logout /\ UNCHANGED <<inVars, cardVars, formVars, pageVars, msgVars, fnVars, hsVars, chatVars>>

\* The channel with its subscribers and the frames it receives.
NextChannel ==
  \/ NextEvents /\ retryRef' <= MaxChannelRetry
  \/ \E h \in Handlers : subscribe(h) /\ UNCHANGED <<evVars, inVars, cardVars, formVars, pageVars, fnVars, hsVars, chatVars>>
  \/ \E h \in Handlers : unsubscribe(h) /\ UNCHANGED <<evVars, inVars, cardVars, formVars, pageVars, fnVars, hsVars, chatVars>>
  \/ \E e \in EsIds, frame \in Frames :
       OnMessage(e, frame) /\ UNCHANGED <<evVars, inVars, cardVars, formVars, pageVars, fnVars, hsVars, chatVars>>

InitEventsSpec == InitEvents /\ InitIntrospect /\ CardIdle /\ FormIdle /\ PageIdle /\ MsgIdle /\ FnIdle /\ HsIdle /\ ChatIdle

SpecEvents == InitEventsSpec /\ [][NextEvents]_vars

InitChannelSpec == InitEvents /\ InitIntrospect /\ CardIdle /\ FormIdle /\ PageIdle /\ MsgIdle /\ FnIdle /\ HsIdle /\ ChatIdle

SpecChannel == InitChannelSpec /\ [][NextChannel]_vars

InitFnSpec == InitEvents /\ InitIntrospect /\ CardIdle /\ FormIdle /\ PageIdle /\ MsgIdle /\ InitFn /\ HsIdle /\ ChatIdle

SpecFn == InitFnSpec /\ [][NextFn]_vars

\* introspectEntity with its invalidations followed: the requests in flight
\* when clearIntrospectionCache removes what is cached under their key.
MaxInvalidateCalls == 2   \* introspectEntity calls in a run that follows invalidations

\* The requests in flight that clearIntrospectionCache(sk) finds under way
\* for a key it clears.
InvalidatedInflight(sk) ==
  {p \in Calls : reqState[p] = "inflight" /\ (sk = NULL \/ callKey[p][1] = sk)}

NextInvalidate ==
  \/ \E k \in IntroKeys :
       /\ \E c \in 1..MaxInvalidateCalls : callState[c] = "idle" /\ callKey[c] = NULL
       /\ Call(k)
       /\ UNCHANGED <<evVars, cardVars, formVars, pageVars, msgVars, fnVars, hsVars, chatVars>>
  \/ \E p \in Calls, v \in Schemas \cup {NoSchema} :
       doIntrospectReturn(p, v) /\ UNCHANGED <<evVars, cardVars, formVars, pageVars, msgVars, fnVars, hsVars, chatVars>>
  \/ \E c \in Calls : Resume(c) /\ UNCHANGED <<evVars, cardVars, formVars, pageVars, msgVars, fnVars, hsVars, chatVars>>
  \/ \E k \in IntroKeys : Expire(k) /\ UNCHANGED <<evVars, cardVars, formVars, pageVars, msgVars, fnVars, hsVars, chatVars>>
  \/ \E sk \in IntroSkills \cup {NULL} :
       /\ clearIntrospectionCache(sk)
       /\ staleReqs' = staleReqs \cup InvalidatedInflight(sk)
       /\ UNCHANGED <<evVars, cardVars, formVars, pageVars, msgVars, fnVars, chatVars>>

InitInvalidateSpec == InitEvents /\ InitIntrospect /\ CardIdle /\ FormIdle /\ PageIdle /\ MsgIdle /\ FnIdle /\ HsIdle /\ ChatIdle
SpecInvalidate == InitInvalidateSpec /\ [][NextInvalidate]_vars

(***************************************************************************)
(* ChatProvider.sendMessage (src/web/src/lib/chat.tsx 164-289)             *)
(***************************************************************************)

\* Bound of the model: the non-blank messages the user submits, numbered in order.
MaxMessages == 4

Messages == 1..MaxMessages

\* Lines 176-198 of a call that passed the isStreaming test: setIsStreaming(true) and
\* the POST to /stream, issued in the same turn.
StartStream(text) ==
  /\ isStreaming' = TRUE
  /\ streams' = streams \cup {text}
  /\ posted' = Append(posted, text)

\* sendMessage(text) called by a component, with the sendMessage of the latest render:
\* blank text returns at once, a call whose captured isStreaming is true overwrites
\* pendingRef.current, any other call starts the stream.
sendMessage(blank) ==
  IF blank
    THEN UNCHANGED chatVars
    ELSE /\ Len(submitted) < MaxMessages
         /\ LET text == Len(submitted) + 1 IN
              /\ submitted' = Append(submitted, text)
              /\ IF renderedStreaming
                   THEN /\ pendingRef' = text
                        /\ UNCHANGED <<isStreaming, streams, posted>>
                   ELSE /\ StartStream(text)
                        /\ UNCHANGED pendingRef
         /\ UNCHANGED <<renderedStreaming, queuedSends>>

\* React renders the provider again after setIsStreaming: the new sendMessage captures
\* the current state (dependency list, line 288).
Rerender ==
  /\ renderedStreaming # isStreaming
  /\ renderedStreaming' = isStreaming
  /\ UNCHANGED <<isStreaming, pendingRef, streams, queuedSends, submitted, posted>>

\* The stream of a message ends, by completion or by an error: the finally block
\* (lines 276-287) clears isStreaming and moves pendingRef.current to a zero-delay timer.
StreamSettled(text) ==
  /\ text \in streams
  /\ streams' = streams \ {text}
  /\ isStreaming' = FALSE
  /\ IF pendingRef # NoMsg
       THEN /\ queuedSends' = queuedSends \cup {pendingRef}
            /\ pendingRef' = NoMsg
       ELSE UNCHANGED <<queuedSends, pendingRef>>
  /\ UNCHANGED <<renderedStreaming, submitted, posted>>

\* The timer of line 284 fires: sendMessage(queued) is the closure that ran the ended
\* stream, whose captured isStreaming is false, so the call starts a stream.
QueuedSend(text) ==
  /\ text \in queuedSends
  /\ queuedSends' = queuedSends \ {text}
  /\ StartStream(text)
  /\ UNCHANGED <<renderedStreaming, pendingRef, submitted>>

NextChat ==
  \/ \E blank \in BOOLEAN : sendMessage(blank) /\ UNCHANGED <<evVars, inVars, cardVars, formVars, pageVars, msgVars, fnVars, hsVars>>
  \/ Rerender /\ UNCHANGED <<evVars, inVars, cardVars, formVars, pageVars, msgVars, fnVars, hsVars>>
  \/ \E text \in Messages : StreamSettled(text) /\ UNCHANGED <<evVars, inVars, cardVars, formVars, pageVars, msgVars, fnVars, hsVars>>
  \/ \E text \in Messages : QueuedSend(text) /\ UNCHANGED <<evVars, inVars, cardVars, formVars, pageVars, msgVars, fnVars, hsVars>>

InitChatSpec == InitEvents /\ InitIntrospect /\ CardIdle /\ FormIdle /\ PageIdle /\ MsgIdle /\ FnIdle /\ HsIdle /\ ChatIdle
SpecChat == InitChatSpec /\ [][NextChat]_vars

\* The browser runs a due timer callback: weak fairness of TimerFire.
SpecEventsFair == SpecEvents /\ WF_vars(TimerFire /\ UNCHANGED <<inVars, cardVars, formVars, pageVars, msgVars, fnVars, hsVars, chatVars>>)

(***************************************************************************)
(* Claims about the server-push channel and the introspector               *)
(***************************************************************************)

\* The form sections the UI.yaml yields for an entity.
SectionsOf(config, entity, entityKey) ==
  IF entity.has_form_view
  THEN buildFormSectionsFromFormView(entity.form_view, entity, config.child_entities, config.skill, 1)
  ELSE buildFormSections(entity, config.skill, config.child_entities, config.has_child_entities,
                         entityKey)

\* The UI.yaml maps the action to a form on an entity it defines, and that
\* entity has at least one form section.
DeclaresForm(config, action) ==
  \E e \in Range(config.action_map) :
     /\ e.action = action
     /\ e.component = "FormView"
     /\ e.entity # ""
     /\ \E ent \in Range(config.entities) :
          ent.key = e.entity /\ SectionsOf(config, ent, e.entity) # <<>>

\* The spec resolveFormSpec returns for the action comes from the manifest
\* tier.
FromManifest(action) ==
  /\ resolveFormSpec(action) # NoSpec
  /\ uiConfig = NoConfig \/ generateFormSpec(uiConfig, action) = NoSpec

\* The manifest-derived spec of the action from what the page holds.
AutoSpec(action) ==
  generateAutoFormSpec(skill, action, ManifestEntry(paramSchema, action)[1], childTableSchema)

\* C1 (as stated): whenever the page holds the skill's UI config and the
\* manifest has metadata for the action, resolveFormSpec does not return the
\* auto-generated spec.
C1_DeclarativeWheneverBothExist ==
  pageMounted =>
    \A a \in Actions :
       (/\ uiConfig # NoConfig /\ uiConfig.skill = skill /\ ~uiConfigLoading
        /\ paramSchema.skill = skill /\ ManifestEntry(paramSchema, a) # <<>>)
       => ~FromManifest(a)

\* C1 (amended): whenever the UI config the page holds maps the action to a
\* FormView on an entity it defines and that entity yields a form section,
\* resolveFormSpec returns the spec generated from that config, whatever the
\* manifest holds; when the held config yields no form for the action and is
\* not loading, resolveFormSpec returns the manifest-derived spec.
C1_DeclarativeWhenItYieldsForm ==
  pageMounted =>
    \A a \in Actions :
       /\ (uiConfig # NoConfig /\ DeclaresForm(uiConfig, a))
          => /\ resolveFormSpec(a) # NoSpec
             /\ resolveFormSpec(a) = generateFormSpec(uiConfig, a)
             /\ resolveFormSpec(a).title[1] \in {"New", "Edit"}
       /\ (/\ uiConfig # NoConfig /\ ~DeclaresForm(uiConfig, a)
           /\ ~uiConfigLoading /\ ManifestEntry(paramSchema, a) # <<>>)
          => resolveFormSpec(a) = AutoSpec(a)

\* The form of an action is open for which the held UI config declares a form
\* and the held manifest would yield one too.
C1_Witness ==
  /\ pageMounted /\ activeForm # NoName
  /\ uiConfig # NoConfig /\ DeclaresForm(uiConfig, activeForm)
  /\ ManifestEntry(paramSchema, activeForm) # <<>>
  /\ AutoSpec(activeForm) # NoSpec

\* C2: while the request for the current skill's UI config is outstanding,
\* resolveFormSpec returns no auto-generated spec for any action.
C2_NoAutoSpecWhileLoading ==
  (pageMounted /\ <<skill, TRUE>> \in inflight["ui"]) => \A a \in Actions : ~FromManifest(a)

\* The keys of the required fields of a spec, row fields included.
RequiredKeys(spec) ==
  UNION {{f.key : f \in {g \in Range(sec.fields) : g.required}} : sec \in Range(spec.sections)}

\* The UI.yaml and the manifest name the same required parameters for the
\* action: the entity's required fields, hidden ones included, under their
\* parameter names.
SourcesAgree(config, schema, action) ==
  \E e \in Range(config.action_map), ent \in Range(config.entities) :
     /\ e.action = action /\ ent.key = e.entity
     /\ {IF f.param_name # NoName THEN f.param_name ELSE UnderscoresToHyphens(f.key) :
           f \in {g \in Range(ent.fields) : g.required}}
        = {q.name : q \in Range(ManifestEntry(schema, action)[1].required)}

\* C3: once the skill's UI config has been removed (absent, not loading), the
\* spec returned for an action both sources described is the manifest-derived
\* one, and its required field keys are those of the declarative spec the
\* removed config gave.
C3_SameRequiredAfterRemoval ==
  \A a \in Actions :
     (/\ pageMounted /\ skill \in uiRemoved
      /\ uiConfig = NoConfig /\ ~uiConfigLoading /\ inflight["ui"] = {}
      /\ generateFormSpec(UIConfigOf(skill, world), a) # NoSpec
      /\ paramSchema # NoParamSchema /\ paramSchema = ParamSchemaOf(skill, world)
      /\ ManifestEntry(paramSchema, a) # <<>>
      /\ SourcesAgree(UIConfigOf(skill, world), paramSchema, a)
      /\ ~hookLoading["child"] /\ childTableSchema = ChildTableSchemaOf(skill, world))
     => /\ resolveFormSpec(a) # NoSpec
        /\ resolveFormSpec(a) = AutoSpec(a)
        /\ RequiredKeys(resolveFormSpec(a))
             = RequiredKeys(generateFormSpec(UIConfigOf(skill, world), a))

\* The step in which the card's handleSubmit calls onSubmit(params).
CardSubmits == ~cardSubmitting /\ cardSubmitting'

\* The step in which the form's handleSubmit calls postAction.
FormSubmits == ~formSubmitting /\ formSubmitting'

\* C4: a confirmation card with unresolved fields never submits unless the
\* user has given every unresolved field a non-empty value: in each step that
\* calls onSubmit, every unresolved field's parameter is non-blank text.
C4_UnresolvedGate ==
  [][CardSubmits =>
       \A f \in Range(composition.unresolved_fields) :
          /\ unresolvedValues[f] \notin {UNDEF, ""}
          /\ Trim(CardParams[f]) # ""]_vars

\* A submission is under way for a composition with two unresolved fields.
C4_Witness == cardSubmitting /\ Len(composition.unresolved_fields) >= 2

\* The required fields of the form that are blank: <<section, row, key>>,
\* row 0 for a scalar field.
BlankIn(s) ==
  LET section == formSpec.sections[s]
      req == {i \in 1..Len(section.fields) : section.fields[i].required}
  IN IF section.type = "repeatable"
     THEN {<<s, r, section.fields[i].key>> :
             <<r, i>> \in {p \in (1..Len(repeatables)) \X req :
                             Falsy(repeatables[p[1]][section.fields[p[2]].key])}}
     ELSE {<<s, 0, section.fields[i].key>> :
             i \in {j \in req : Falsy(fields[section.fields[j].key])}}

BlankRequired == UNION {BlankIn(s) : s \in 1..Len(formSpec.sections)}

\* C5: whenever a submission is attempted, a blank required field (scalar
\* field, field of a row, or composed field with a blank override) blocks it
\* before any network call: no step that calls onSubmit or postAction is
\* taken with a required parameter blank.
C5_BlankBlocksSubmit ==
  /\ [][CardSubmits => \A f \in cardRequired : CardParams[f] \notin {UNDEF, ""}]_vars
  /\ [][FormSubmits => BlankRequired = {}]_vars

\* C6: a failed validation lists every required field that is blank: the
\* message shown names all of them.
C6_ListsEveryBlank ==
  [][(toast' # toast /\ toast'.kind = "required") =>
       {<<toast'.section, toast'.row, toast'.field>>} = BlankRequired]_vars

\* C7: counting handled transport failures from the last handled open (or from
\* the initial mount), the k-th consecutive failure schedules the reconnect
\* after exactly min(1s * 2^(k-1), 30s); after an open the count restarts, so
\* the next failure's delay is 1s again.
C7_BackoffSchedule ==
  /\ fails > 0 => lastDelay = Min(1000 * Pow2(fails - 1), 30000)
  /\ fails = 0 => lastDelay = 0

\* C7 witness: after a successful connection, enough consecutive failures to
\* reach the 30s cap.
C7_Witness == opened /\ fails >= 16 /\ lastDelay = 30000

\* C8: a call made while a request for the same key is in flight issues no
\* request of its own and resolves to what that request resolves to; at most
\* one request per key is in flight.
C8_SharedInflight ==
  /\ \A k \in IntroKeys : Cardinality(InflightFor(k)) <= 1
  /\ \A c \in Calls : callDuring[c] # 0 =>
        /\ reqState[c] = "none"
        /\ callState[c] = "done" =>
             /\ reqState[callDuring[c]] = "settled"
             /\ callResult[c] = reqValue[callDuring[c]]

\* C8 witness: a call joined an in-flight request and resolved to its schema.
C8_Witness ==
  \E c \in Calls : /\ callDuring[c] # 0
                   /\ callState[c] = "done"
                   /\ callResult[c] # NoSchema
                   /\ callState[callDuring[c]] = "done"

\* C9: a handled transport failure sets the status to disconnected, and unless
\* the user logs out or the provider unmounts, a connection attempt follows.
C9_Recovers ==
  /\ [][fails' = fails + 1 => (status' = "disconnected" /\ recovering' = accessToken)]_vars
  /\ recovering ~> (status = "connecting" \/ ~mountedRef \/ ~accessToken)

\* C9 witness: within one mount, a failure has been handled and a new attempt
\* is under way.
C9_Witness == mounts = 1 /\ fails > 0 /\ ~recovering /\ status = "connecting"

\* C10 (as claimed): at most one EventSource is open at any moment.
C10_SingleSource == Cardinality(OpenSources) <= 1

(***************************************************************************)
(* Claims about message dispatch                                           *)
(***************************************************************************)

\* C11: a frame whose type is heartbeat invokes no subscribed handler,
\* whatever the state of the connection and whoever is subscribed.
C11_HeartbeatNeverForwarded == lastMsg = "heartbeat" => invoked = <<>>

\* A heartbeat arrived on the open connection of a remounted provider with
\* both handlers subscribed.
C11_Witness ==
  /\ lastMsg = "heartbeat"
  /\ Len(handlersRef) = 2
  /\ mountedRef /\ mounts > 1
  /\ esRef # 0 /\ esState[esRef] = "open"

(***************************************************************************)
(* Claims about response introspection and the fetchers                    *)
(***************************************************************************)

\* The call failed: the request was rejected, answered with a status that is
\* not ok or a body that is no JSON or not "ok", or (list call) the body has
\* no usable array, an empty one, or one that starts with null.
CallFailed ==
  IF request.call = "introspect" THEN request.response.kind \in IntrospectFailures
  ELSE request.response.kind \in FetchFailures(request.call)

\* C12: a call of the introspector, the descriptor fetcher or the
\* parameter-schema fetcher never rejects, and when its collaborator call
\* failed it resolves to null.
C12_FailuresResolveToNull ==
  promise # Unsettled =>
    /\ promise.state = "resolved"
    /\ CallFailed => promise = ResolvedNull

\* An introspection whose try block threw has settled.
C12_Witness ==
  /\ request.call = "introspect"
  /\ request.response.kind \in {"network-error", "bad-json", "null-row"}
  /\ promise = ResolvedNull

\* The introspection resolved to a schema.
Introspected ==
  /\ request.call = "introspect"
  /\ promise.state = "resolved"
  /\ promise.schema # NullSchema

\* C13: the column inferred for ("posting_date", "2024-03-01") is a date,
\* for ("amount", "125.50") a currency, for ("id", a UUID) a hidden id, and
\* for ("is_active", 1) a boolean; a 0 or 1 under a boolean-prefixed name is
\* a boolean before its runtime type is looked at.
C13_InferenceExamples ==
  Introspected =>
    \A i \in 1..Len(request.response.row) :
       LET entry == request.response.row[i]
           col == promise.schema.columns[i]
       IN /\ col.key = entry.key
          /\ entry = SampleRow[6] => col.type = "date"
          /\ entry = SampleRow[4] => col.type = "currency"
          /\ entry = SampleRow[1] => col.type = "id" /\ col.hidden
          /\ entry = SampleRow[7] => col.type = "boolean"
          /\ (/\ entry.value \in {Num(0), Num(1)}
              /\ \/ KeyStartsWith(entry.key, "is") \/ KeyStartsWith(entry.key, "has")
                 \/ KeyStartsWith(entry.key, "enable"))
             => col.type = "boolean"

\* The keys of the visible columns of the introspected record.
VisibleKeys == {c.key : c \in {d \in Range(promise.schema.columns) : ~d.hidden}}

\* C14: for a sample record with N visible columns the smart-selected subset
\* has min(N, 7) entries, all different, each the key of a visible column.
C14_SelectsMinOfSeven ==
  Introspected =>
    LET listColumns == promise.schema.listColumns
    IN /\ Len(listColumns) = Min(Cardinality(VisibleKeys), 7)
       /\ \A i, j \in 1..Len(listColumns) : i # j => listColumns[i] # listColumns[j]
       /\ Range(listColumns) \subseteq VisibleKeys

\* A record with more than seven visible columns and some hidden ones.
C14_Witness ==
  /\ Introspected
  /\ Cardinality(VisibleKeys) > 7
  /\ \E c \in Range(promise.schema.columns) : c.hidden

\* The score table of the specification: the highest entry that applies to
\* the column.
DocumentedScore(col) ==
  IF col.key \in {Snake(<<"name">>), Snake(<<"title">>)} THEN 100
  ELSE IF col.key \in {Snake(<<"status">>), Snake(<<"docstatus">>), Snake(<<"state">>),
                       Snake(<<"stage">>)} THEN 90
  ELSE IF col.type = "badge" THEN 70
  ELSE IF col.type = "currency" THEN 60
  ELSE IF col.type = "number" THEN 50
  ELSE IF col.type = "date" THEN 40
  ELSE IF col.type = "boolean" THEN 30
  ELSE IF col.type = "text" THEN 20
  ELSE 0

\* The position of a key in the introspected record, and its column.
PositionOf(key) == CHOOSE i \in 1..Len(promise.schema.columns) : promise.schema.columns[i].key = key
ColumnAt(key) == promise.schema.columns[PositionOf(key)]

\* C15: the smart-selected columns are in descending order of the documented
\* score table, columns of equal score keep their record order, and no
\* visible column that was left out scores higher than one that was kept.
C15_DocumentedScoreOrder ==
  Introspected =>
    LET listColumns == promise.schema.listColumns
    IN /\ \A i, j \in 1..Len(listColumns) :
            i < j =>
              \/ DocumentedScore(ColumnAt(listColumns[i])) > DocumentedScore(ColumnAt(listColumns[j]))
              \/ /\ DocumentedScore(ColumnAt(listColumns[i])) = DocumentedScore(ColumnAt(listColumns[j]))
                 /\ PositionOf(listColumns[i]) < PositionOf(listColumns[j])
       /\ \A out \in VisibleKeys \ Range(listColumns), kept \in Range(listColumns) :
            DocumentedScore(ColumnAt(out)) <= DocumentedScore(ColumnAt(kept))

(***************************************************************************)
(* Claims about the confirmation card's resolved fields                    *)
(***************************************************************************)

\* C16: highConfidence and lowConfidence are disjoint, together they are the
\* resolved fields, and a field of confidence exactly 0.8 is in
\* highConfidence.
C16_ConfidencePartition ==
  /\ Range(highConfidence) \cap Range(lowConfidence) = {}
  /\ Range(highConfidence) \cup Range(lowConfidence) = Range(composition.resolved_fields)
  /\ Len(highConfidence) + Len(lowConfidence) = Len(composition.resolved_fields)
  /\ \A f \in Range(composition.resolved_fields) :
        f.confidence = 80 => f \in Range(highConfidence)

\* A card with a field at 0.8 and a field below it.
C16_Witness ==
  /\ \E f \in Range(composition.resolved_fields) : f.confidence = 80
  /\ lowConfidence # <<>>

\* C17: whatever edits are made, the value the card would submit for a
\* resolved field is its latest override, or its original value while it was
\* never edited; and the CompositionResult (value, confidence and source of
\* every field) is never changed.
C17_OverrideSupersedes ==
  /\ [][composition' = composition]_vars
  /\ [][\A f \in Range(composition.resolved_fields) :
          /\ resolvedOverrides'[f.field] # resolvedOverrides[f.field]
                => CardParams'[f.field] = resolvedOverrides'[f.field]
          /\ resolvedOverrides'[f.field] = UNDEF => CardParams'[f.field] = f.value
          /\ (CardSubmits /\ resolvedOverrides[f.field] # UNDEF)
                => CardParams[f.field] = resolvedOverrides[f.field]]_vars

\* The card is submitting with one resolved field overridden by the empty
\* string and another never edited.
C17_Witness ==
  /\ cardSubmitting
  /\ \E f, g \in Range(composition.resolved_fields) :
        /\ resolvedOverrides[f.field] = ""
        /\ resolvedOverrides[g.field] = UNDEF

(***************************************************************************)
(* The manifest-derived form: sections, JSON parameters, empty forms       *)
(***************************************************************************)

\* The page holds no UI config (none being loaded) and resolveFormSpec
\* returns a spec for the action, so one derived from its manifest entry.
ManifestOnly(action) ==
  /\ pageMounted /\ uiConfig = NoConfig /\ ~uiConfigLoading
  /\ ManifestEntry(paramSchema, action) # <<>>
  /\ resolveFormSpec(action) # NoSpec

\* The parameters of a list that are neither JSON-typed nor hidden, and the
\* hidden ones.
RegularParams(params) ==
  SelectSeq(params, LAMBDA q : q.type # "json" /\ q.name \notin AUTO_HIDDEN_FIELDS)

HiddenParams(params) == SelectSeq(params, LAMBDA q : q.name \in AUTO_HIDDEN_FIELDS)

\* The fields of a section as <<key, options>> pairs, and the parameters of a
\* list as <<name, options>> pairs.
KeysAndOptions(fs) == [i \in 1..Len(fs) |-> <<fs[i].key, fs[i].options>>]

NamesAndOptions(params) == [i \in 1..Len(params) |-> <<params[i].name, params[i].options>>]

\* The section of the required parameters and the section of the optional
\* ones: the former is there when the action has a required parameter that is
\* neither JSON-typed nor hidden, and the latter follows it.
RequiredSection(spec, schema) ==
  IF RegularParams(schema.required) # <<>> THEN <<spec.sections[1]>> ELSE <<>>

OptionalSection(spec, schema) ==
  IF RegularParams(schema.optional) = <<>> THEN <<>>
  ELSE IF RegularParams(schema.required) # <<>> THEN <<spec.sections[2]>>
  ELSE <<spec.sections[1]>>

\* The add-customer example: one required-section field customer_name and one
\* optional-section field customer_type with its two options in order.
ExampleHolds(spec) ==
  /\ Len(spec.sections) = 2
  /\ KeysAndOptions(spec.sections[1].fields) = << <<Snake(<<"customer", "name">>), <<>>>> >>
  /\ spec.sections[1].fields[1].required /\ spec.sections[1].fields[1].type = "text"
  /\ KeysAndOptions(spec.sections[2].fields)
       = << <<Snake(<<"customer", "type">>), <<"Company", "Individual">>>> >>
  /\ ~spec.sections[2].fields[1].required /\ spec.sections[2].fields[1].type = "select"

\* C18 (as stated): for an action with manifest metadata and no declarative
\* descriptor, the required section of the resolved FormSpec holds exactly the
\* required non-JSON, non-hidden parameters in manifest order and the optional
\* section exactly the optional ones, each field with its options in order;
\* the add-customer example resolves to one required-section field and one
\* optional-section field with two options.
C18_SectionsExactlyRegularParams ==
  \A a \in Actions :
     ManifestOnly(a) =>
       LET schema == ManifestEntry(paramSchema, a)[1]
           spec == resolveFormSpec(a)
       IN /\ \A sec \in Range(RequiredSection(spec, schema)) :
               KeysAndOptions(sec.fields) = NamesAndOptions(RegularParams(schema.required))
          /\ \A sec \in Range(OptionalSection(spec, schema)) :
               KeysAndOptions(sec.fields) = NamesAndOptions(RegularParams(schema.optional))
          /\ (world.params = "example" /\ paramSchema = ParamSchemaOf(skill, world)
              /\ a = AddCustomer) => ExampleHolds(spec)

\* C18 (amended): the first section of the manifest-derived FormSpec starts
\* with the hidden required parameters, last one first; after them the
\* required section holds exactly the required non-JSON, non-hidden parameters
\* in manifest order, all required, and the optional section, labelled
\* "Additional Details", exactly the optional ones, none required; every field
\* keeps its parameter's options in order; the add-customer example resolves
\* as stated.
C18_SectionsAfterHiddenParams ==
  \A a \in Actions :
     ManifestOnly(a) =>
       LET schema == ManifestEntry(paramSchema, a)[1]
           spec == resolveFormSpec(a)
           hidden == NamesAndOptions(Reverse(HiddenParams(schema.required)))
           prefix(sec) == IF sec = spec.sections[1] THEN hidden ELSE <<>>
       IN /\ \A sec \in Range(RequiredSection(spec, schema)) :
               /\ KeysAndOptions(sec.fields)
                    = hidden \o NamesAndOptions(RegularParams(schema.required))
               /\ \A f \in Range(sec.fields) : f.required
          /\ \A sec \in Range(OptionalSection(spec, schema)) :
               /\ KeysAndOptions(sec.fields)
                    = prefix(sec) \o NamesAndOptions(RegularParams(schema.optional))
               /\ sec.label = <<"Additional Details">>
               /\ \A i \in (Len(prefix(sec)) + 1)..Len(sec.fields) : ~sec.fields[i].required
          /\ (world.params = "example" /\ paramSchema = ParamSchemaOf(skill, world)
              /\ a = AddCustomer) => ExampleHolds(spec)

\* The form of add-customer is open, resolved from the manifest of the
\* example, with no UI config held.
C18_Witness ==
  /\ activeForm = AddCustomer /\ ManifestOnly(AddCustomer)
  /\ world.params = "example" /\ paramSchema = ParamSchemaOf(skill, world)
  /\ ExampleHolds(resolveFormSpec(AddCustomer))

\* The JSON-typed parameters of the action in the source the resolved spec
\* comes from, as names: those of its manifest entry, or the JSON-typed form
\* fields of the entity the UI config maps it to.
JsonParamNames(action) ==
  IF FromManifest(action)
  THEN LET schema == ManifestEntry(paramSchema, action)[1]
       IN {q.name : q \in {r \in Range(schema.required \o schema.optional) : r.type = "json"}}
  ELSE LET entity == EntityNamed(uiConfig, ActionEntry(uiConfig, action)[1].entity)[1]
       IN {IF f.param_name # NoName THEN f.param_name ELSE UnderscoresToHyphens(f.key) :
             f \in {g \in Range(entity.fields) :
                      g.type = "json" /\ g.in_form_view /\ ~g.read_only /\ ~g.hidden}}

\* A child table is declared for the action's entity and the parameter: in
\* the child-table schema under the derived entity, or among the UI config's
\* child entities under the mapped entity (one that declares no parameter
\* name is taken to match).
ChildTableDeclared(action, name) ==
  IF FromManifest(action)
  THEN \E ct \in Range(childTablesOf(childTableSchema, deriveEntity(action))) :
          ct.param_name = name
  ELSE \E cd \in Range(uiConfig.child_entities) :
          /\ cd.parent_entity = ActionEntry(uiConfig, action)[1].entity
          /\ cd.param_name \in {NoName, name}

RenderedRepeatable(spec, name) ==
  \E sec \in Range(spec.sections) : sec.type = "repeatable" /\ sec.key = name

RenderedAsJsonText(spec, name) ==
  \E sec \in Range(spec.sections) :
     /\ sec.type # "repeatable"
     /\ \E f \in Range(sec.fields) : f.key = name /\ f.type \in {"textarea", "text"}

\* C19: a JSON-typed parameter of an action is rendered as a repeatable
\* section only if a child table is declared whose parent entity is the
\* action's entity and whose parameter name is the parameter's name; in every
\* other case it is rendered as a raw JSON-text field keyed by the parameter
\* name.
C19_JsonParamRendering ==
  \A a \in Actions :
     (pageMounted /\ resolveFormSpec(a) # NoSpec) =>
       \A name \in JsonParamNames(a) :
          /\ RenderedRepeatable(resolveFormSpec(a), name) => ChildTableDeclared(a, name)
          /\ ~RenderedRepeatable(resolveFormSpec(a), name)
               => RenderedAsJsonText(resolveFormSpec(a), name)

\* The fields of a spec the user is shown: those of its sections, row fields
\* included, other than the gateway-injected hidden ones.
UserFacingFields(spec) ==
  UNION {{f \in Range(sec.fields) : f.key \notin AUTO_HIDDEN_FIELDS} : sec \in Range(spec.sections)}

\* C20: an action with zero eligible fields resolves to null: resolveFormSpec
\* never returns a FormSpec that has no sections or no user-facing field.
C20_NoEmptyFormSpec ==
  \A a \in Actions :
     (pageMounted /\ resolveFormSpec(a) # NoSpec) =>
       /\ resolveFormSpec(a).sections # <<>>
       /\ UserFacingFields(resolveFormSpec(a)) # {}

\* The field carries a mark that tells it from the field an ordinary
\* parameter of the same name, label, type and requiredness gets: it is
\* something other than the plain copy of paramToField's result.
FlaggedHidden(f, param) == f # paramToField(param, skill)

\* C21: every hidden required parameter of the action is retained in the
\* first section of the resolved FormSpec and carries a flag marking it
\* hidden.
C21_HiddenRetainedAndFlagged ==
  \A a \in Actions :
     (pageMounted /\ FromManifest(a)) =>
       \A hp \in Range(HiddenParams(ManifestEntry(paramSchema, a)[1].required)) :
          /\ resolveFormSpec(a).sections # <<>>
          /\ \E f \in Range(resolveFormSpec(a).sections[1].fields) :
                f.key = hp.name /\ FlaggedHidden(f, hp)

C23_StaleResponseDiscarded ==
  pageMounted =>
    \A h \in Hooks :
       (~hookLoading[h] /\ hookValue[h] # NullOf(h)) => hookValue[h].skill = skill

\* C24: invalidation is one atomic delete-or-clear: a step that removes a
\* cached introspection entry either clears the cache or removes every entry
\* of one skill and leaves every entry of every other skill as it was, so no
\* state holds only some of a skill's entries removed.
C24_InvalidationAtomic ==
  [][(\E k \in IntroKeys : inCache[k] # NoEntry /\ inCache'[k] = NoEntry)
       => \/ \A k \in IntroKeys : inCache'[k] = NoEntry
          \/ \E sk \in IntroSkills :
                \A k \in IntroKeys :
                   inCache'[k] = IF k[1] = sk THEN NoEntry ELSE inCache[k]]_vars

\* Both lists of skill s1 and the list of s2 were introspected and cached, and
\* s1 has been invalidated: its entries are gone, that of s2 is there.
C24_Witness ==
  /\ \A c \in Calls : callState[c] = "done" /\ callResult[c] # NoSchema
  /\ {callKey[c] : c \in Calls} = IntroKeys
  /\ \A k \in IntroKeys : inCache[k] = NoEntry <=> k[1] = "s1"

\* The same for the UI config cache, which holds one entry per skill: the
\* entry of the invalidated skill is removed, every other entry is kept.
InvalidateUICacheFrame ==
  [][\A s \in PageSkills :
        invalidateUICache(s)
          => /\ hookCache'["ui"][s] = NoCached("ui")
             /\ \A h \in Hooks, t \in PageSkills :
                   (h # "ui" \/ t # s) => hookCache'[h][t] = hookCache[h][t]]_vars

\* C25: once an invalidation of the introspection cache has completed, no
\* schema whose fetch started before it is written into the cache, and no call
\* made after it is handed the promise of such a fetch.
C25_NoStaleRepopulation ==
  [][/\ \A p \in staleReqs :
          (reqState[p] = "inflight" /\ reqState'[p] = "settled") => inCache' = inCache
     /\ \A c \in Calls :
          (callState[c] = "idle" /\ callState'[c] = "awaiting")
            => callPromise'[c] \notin staleReqs]_<<reqState, callState>>

\* How many times handler h is in the sequence of handlers called.
TimesCalled(h, called) == Cardinality({i \in 1..Len(called) : called[i] = h})

\* C26: every non-heartbeat frame received on the open connection is
\* delivered exactly once to every handler registered at that moment, also
\* when another registered handler throws on the same frame: the onmessage
\* call of a mounted provider for an event frame calls each registered
\* handler once and no other.
C26_DeliveredToEveryHandler ==
  [][(mountedRef /\ lastMsg' = "ui-updated" /\ handlersRef' = handlersRef)
       => \A h \in Handlers :
             TimesCalled(h, invoked') = IF h \in Range(handlersRef) THEN 1 ELSE 0]_<<lastMsg, invoked>>

(***************************************************************************)
(* Invariants of the produced FormSpecs                                    *)
(***************************************************************************)

\* The fields of a spec, row fields of repeatable sections included.
AllFields(spec) == UNION {Range(sec.fields) : sec \in Range(spec.sections)}

\* C27: every field of type entity-lookup in a FormSpec produced by either
\* generator, row fields included, has a non-empty lookup list action.
C27_LookupHasListAction ==
  \A a \in Actions :
     (pageMounted /\ resolveFormSpec(a) # NoSpec) =>
       \A f \in AllFields(resolveFormSpec(a)) :
          f.type = "entity-lookup" => f.entity_action # NoName

\* The names of the JSON-typed parameters of the action: those of the source
\* its spec comes from, and those of its manifest entry when one is held.
ActionJsonParams(action) ==
  JsonParamNames(action)
  \cup (IF ManifestEntry(paramSchema, action) = <<>> THEN {}
        ELSE LET schema == ManifestEntry(paramSchema, action)[1]
             IN {q.name : q \in {r \in Range(schema.required \o schema.optional) :
                                   r.type = "json"}})

\* C28: every repeatable section of a produced FormSpec has as key the name
\* of a JSON-typed parameter of the target action.
C28_RepeatableKeyIsJsonParam ==
  \A a \in Actions :
     (pageMounted /\ resolveFormSpec(a) # NoSpec) =>
       \A sec \in Range(resolveFormSpec(a).sections) :
          sec.type = "repeatable" => sec.key \in ActionJsonParams(a)

\* C29: every non-blank message passed to sendMessage is sent to the backend exactly
\* once: at any moment a submitted message has been POSTed at most once, and one not
\* yet POSTed is still held for sending (in pendingRef.current or in a timer of finally),
\* also when several messages are submitted during one stream.
TimesPosted(text) == Cardinality({i \in 1..Len(posted) : posted[i] = text})

HeldForSending(text) == pendingRef = text \/ text \in queuedSends

C29_SentExactlyOnce ==
  \A i \in 1..Len(submitted) :
    /\ TimesPosted(submitted[i]) <= 1
    /\ TimesPosted(submitted[i]) = 0 => HeldForSending(submitted[i])

\* The two halves of C29 apart, and its case with one message per stream.
C29_NeverDuplicated == \A i \in 1..Len(submitted) : TimesPosted(submitted[i]) <= 1

C29_NeverDropped ==
  \A i \in 1..Len(submitted) :
    TimesPosted(submitted[i]) = 0 => HeldForSending(submitted[i])

\* C30: in every state of a rendered form, the initial one included, the rows of each
\* repeatable section number at least its min_rows (0 when unset) and at most its
\* max_rows (when set).
RepeatableSections ==
  {formSpec.sections[s] : s \in {i \in 1..Len(formSpec.sections) :
                                    formSpec.sections[i].type = "repeatable"}}

WithinRowLimits(section) ==
  /\ Len(repeatables) >= section.min_rows
  /\ section.max_rows # NoMax => Len(repeatables) <= section.max_rows

C30_WithinLimitsFromOneRow ==
  formSpec # NoFormSpec =>
    \A section \in RepeatableSections :
      (section.min_rows <= 1 /\ (section.max_rows = NoMax \/ section.max_rows >= 1))
        => WithinRowLimits(section)

====
